---- MODULE Spec2Model ----
(***************************************************************************)
(* Forex-Backend: the real-time delivery and work-dispatch fabric.         *)
(*                                                                         *)
(*   Part I   EnhancedWebSocketManager and the duplex endpoints            *)
(*            (app/enhanced_websocket_manager.py, app/websocket_routes.py) *)
(*   Part II  TaskQueueService over the memory FIFO or the RedisStore list *)
(*            (app/services/task_queue_service.py, redis_store.py)         *)
(*   Part III RedisStore: ensure_connected and the store operations under  *)
(*            concurrent callers (app/services/redis_store.py)             *)
(*   Part IV  The HTTP middleware chain (app/main.py)                      *)
(*   Part V   Ops alerts: thresholds, the latch and the webhook            *)
(*            (app/ops_routes.py)                                          *)
(*   Part VI  Task records, the create endpoint and the task handlers      *)
(*            (app/ai_task_routes.py, main.py)                             *)
(*   Part VII One session of a duplex endpoint followed over time: when    *)
(*            last_seen is written and what the server writes to it        *)
(*            (app/websocket_routes.py, app/enhanced_websocket_manager.py) *)
(*   Part VIII ForexDataService.get_currency_rates: cache, minimum fetch   *)
(*            interval and retry backoff (app/forex_data_service.py)       *)
(*   Part IX  The forex stream: start_forex_stream, stop_forex_stream and  *)
(*            the tasks running stream_live_data on the event loop         *)
(*            (app/enhanced_websocket_manager.py, forex_data_service.py)   *)
(*                                                                         *)
(* Every coroutine is a process whose pc names the await it is suspended   *)
(* at; the code between two awaits runs atomically on the event loop and   *)
(* is one action.                                                          *)
(***************************************************************************)
EXTENDS Integers, Sequences, FiniteSets, TLC

VARIABLES
    \* ---- Part I: EnhancedWebSocketManager ----
    active_connections,          \* dict task_id -> set of websockets
    all_connections,             \* set of websockets
    connection_registry,         \* dict connection_id -> metadata
    websocket_to_connection_id,  \* dict id(websocket) -> connection_id
    uuid_counter,                \* number of uuid4() connection ids minted
    removals_scheduled,          \* remove_ws_connection tasks scheduled so far
    ep,                          \* per socket: the endpoint coroutine serving it
    snd,                         \* a producer inside send_update(task_id=...)
    bc,                          \* a producer inside broadcast(...)
    live,                        \* history: sockets registered and not yet disconnected
    \* ---- Part II: TaskQueueService / RedisStore ----
    tq,                          \* the TaskQueueService fields
    workers,                     \* worker index -> the worker task
    ctl,                         \* the lifespan coroutine calling start() / stop()
    enq,                         \* the producer coroutine calling enqueue()
    redis,                       \* RedisStore fields and the shared list
    jobs,                        \* history: what became of each job
    \* ---- Part III: RedisStore under concurrent callers ----
    callers,                     \* coroutines inside ensure_connected() or a store operation
    lock,                        \* RedisStore._lock and the coroutines waiting for it
    ws_registry,                 \* the shared registry hash: connection ids present
    probe_failed_at,             \* history: clock reading at the last failed probe
    \* ---- Part IV: the HTTP middleware chain of app.main ----
    clock,                       \* time.time(), in whole seconds
    rate_limit_store,            \* _rate_limit_store: client host -> deque of timestamps
    auth_rate_limit_store,       \* _auth_rate_limit_store: host:path -> deque of timestamps
    passed,                      \* history: per limiter key, when a request was passed on
    last,                        \* the last request served and the response the client got
    env,                         \* the last run of the envelope middleware on a response
    \* ---- Part V: ops alerts ----
    alert_latch,                 \* _alert_latch: insertion-ordered dict id -> alert
    hook_run,                    \* history: the last run of _emit_alert_hooks
    \* ---- Part VI: task records and handlers ----
    task_db,                     \* the task store: task id -> record
    handlers,                    \* task id -> the background handler coroutine
    topic,                       \* history: task id -> frames the handler emitted
    api,                         \* the last answer of the create endpoint
    \* ---- Part VII: one session over time ----
    session,                     \* the endpoint serving it, its metadata, what was written
    \* ---- Part VIII: ForexDataService ----
    forex,                       \* the rate fields, time.monotonic() and the call in progress
    \* ---- Part IX: the forex stream ----
    stream,                      \* forex_service.running/session, streaming_tasks, the sessions
    stream_tasks,                \* task number -> the task running stream_live_data
    ready,                       \* the event loop's queue of tasks due for a step
    \* ---- Part X: positions, forecasts, background store writes, hook runs ----
    risk,                        \* the last call of RiskEngine.evaluate_position
    forecast,                    \* the last call of get_pair_forecast
    bg,                          \* one session's background store operations and the hash
    emitters                     \* the runs of _emit_alert_hooks in progress, and the calls made

wsvars == <<active_connections, all_connections, connection_registry,
            websocket_to_connection_id, uuid_counter, removals_scheduled,
            ep, snd, bc, live>>
qvars == <<tq, workers, ctl, enq, redis, jobs>>
storevars == <<callers, lock, ws_registry, probe_failed_at>>
httpvars == <<clock, rate_limit_store, auth_rate_limit_store, passed, last, env>>
opsvars == <<alert_latch, hook_run>>
taskvars == <<task_db, handlers, topic, api>>
vars == <<active_connections, all_connections, connection_registry,
          websocket_to_connection_id, uuid_counter, removals_scheduled,
          ep, snd, bc, live, tq, workers, ctl, enq, redis, jobs,
          callers, lock, ws_registry, probe_failed_at,
          clock, rate_limit_store, auth_rate_limit_store, passed, last, env,
          alert_latch, hook_run, task_db, handlers, topic, api, session, forex,
          stream, stream_tasks, ready, risk, forecast, bg, emitters>>
streamvars == <<stream, stream_tasks, ready>>
latevars == <<risk, forecast, bg, emitters>>

\* What the actions of one part leave alone.
notws == <<qvars, storevars, httpvars, opsvars, taskvars, session, forex, streamvars, latevars>>
notq == <<wsvars, storevars, httpvars, opsvars, taskvars, session, forex, streamvars, latevars>>
notstore == <<wsvars, tq, workers, ctl, enq, jobs, httpvars, opsvars, taskvars,
              session, forex, streamvars, latevars>>
nothttp == <<wsvars, qvars, storevars, opsvars, taskvars, session, forex, streamvars, latevars>>
notops == <<wsvars, qvars, storevars, httpvars, taskvars, session, forex, streamvars, latevars>>
nottasks == <<wsvars, qvars, storevars, httpvars, opsvars, session, forex, streamvars, latevars>>
notsession == <<wsvars, qvars, storevars, httpvars, opsvars, taskvars, forex, streamvars, latevars>>
notforex == <<wsvars, qvars, storevars, httpvars, opsvars, taskvars, session, streamvars, latevars>>
notstream == <<wsvars, qvars, storevars, httpvars, opsvars, taskvars, session, forex,
               latevars>>

early == <<wsvars, qvars, storevars, httpvars, taskvars, session, forex, streamvars>>
notrisk == <<early, opsvars, forecast, bg, emitters>>
notforecast == <<early, opsvars, risk, bg, emitters>>
notbg == <<early, opsvars, risk, forecast, emitters>>
notemitters == <<early, hook_run, risk, forecast, bg>>

None == "None"

(***************************************************************************)
(* Part I.  EnhancedWebSocketManager                                       *)
(***************************************************************************)

\* Number of client sockets that may connect during a run.
MaxSockets == 1

Sockets == 1..MaxSockets

\* Topics: the reserved "global" topic and one task id.
Topics == {"global", "task1"}

\* The endpoint serving a topic: websocket_global (/ws) connects under
\* "global", websocket_endpoint (/ws/{task_id}) under its task id.
EndpointKind(t) == IF t = "global" THEN "global" ELSE "task"

Max(a, b) == IF a >= b THEN a ELSE b

Min(a, b) == IF a <= b THEN a ELSE b

\* Every order in which list(a_set) may enumerate a set.
RECURSIVE Orders(_)
Orders(S) ==
    IF S = {} THEN {<<>>}
    ELSE UNION {{<<x>> \o r : r \in Orders(S \ {x})} : x \in S}

\* dict helpers
DictSet(d, k, v) == [x \in DOMAIN d \cup {k} |-> IF x = k THEN v ELSE d[x]]

DictDel(d, k) == [x \in DOMAIN d \ {k} |-> d[x]]

EmptyDict == [x \in {} |-> None]

\* _find_task_for_websocket: first topic whose set holds the websocket.
FindTaskForWebsocket(ws) ==
    LET cands == {t \in DOMAIN active_connections : ws \in active_connections[t]}
    IN  IF cands = {} THEN None ELSE CHOOSE t \in cands : TRUE

\* disconnect, line 91: task_id or _find_task_for_websocket(ws) or "global"
ResolvedTask(ws, task_id) ==
    IF task_id # None THEN task_id
    ELSE IF FindTaskForWebsocket(ws) # None THEN FindTaskForWebsocket(ws)
    ELSE "global"

\* disconnect, lines 94-97: discard from the topic set, drop the emptied key.
DiscardFromTopic(ws, resolved_task) ==
    IF resolved_task \in DOMAIN active_connections
    THEN LET rest == active_connections[resolved_task] \ {ws}
         IN  IF rest = {} THEN DictDel(active_connections, resolved_task)
             ELSE DictSet(active_connections, resolved_task, rest)
    ELSE active_connections

\* A disconnect that forgets the broadcast set.
DiscardFromAll_Forgotten(ws) == all_connections

\* disconnect, line 100.
DiscardFromAll(ws) == all_connections \ {ws}

\* pop(id(websocket), None) found no connection id.
NoConnectionId == 0

\* disconnect, lines 102-107: pop the id mapping; when it named a registry
\* entry, delete the entry and schedule remove_ws_connection for it.
PopConnectionId(ws) ==
    IF ws \in DOMAIN websocket_to_connection_id
    THEN websocket_to_connection_id[ws] ELSE NoConnectionId

\* A disconnect that schedules a removal whether or not an entry was found.
HasRegistryEntry_Always(cid) == TRUE

\* disconnect, line 103: connection_id and connection_id in connection_registry
HasRegistryEntry(cid) ==
    cid # NoConnectionId /\ cid \in DOMAIN connection_registry

\* The whole of disconnect(websocket, task_id, reason).
Disconnect(ws, task_id, reason) ==
    LET cid == PopConnectionId(ws)
    IN  /\ active_connections' = DiscardFromTopic(ws, ResolvedTask(ws, task_id))
        /\ all_connections' = DiscardFromAll(ws)
        /\ websocket_to_connection_id' = DictDel(websocket_to_connection_id, ws)
        /\ IF HasRegistryEntry(cid)
           THEN /\ connection_registry' = DictDel(connection_registry, cid)
                /\ removals_scheduled' = removals_scheduled + 1
           ELSE UNCHANGED <<connection_registry, removals_scheduled>>
        /\ live' = live \ {ws}

\* mark_connection_alive(websocket): refresh last_seen of the socket's entry.
MarkConnectionAlive(ws) ==
    /\ connection_registry' =
           IF /\ ws \in DOMAIN websocket_to_connection_id
              /\ websocket_to_connection_id[ws] \in DOMAIN connection_registry
           THEN [connection_registry EXCEPT
                    ![websocket_to_connection_id[ws]].last_seen = "refreshed"]
           ELSE connection_registry
    /\ UNCHANGED <<active_connections, all_connections,
                   websocket_to_connection_id, removals_scheduled, live>>

\* Writes in progress on socket s: coroutines suspended in send_json/send_text.
WritesInProgress(s) ==
    (IF ep[s].pc \in {"welcome_write", "pong_write", "echo_write"} THEN 1 ELSE 0)
  + (IF snd.pc = "writing" /\ snd.cur = s THEN 1 ELSE 0)
  + (IF bc.pc = "writing" /\ bc.cur = s THEN 1 ELSE 0)

IdleSend == [pc |-> "idle", task_id |-> None, cur |-> 0, rest |-> <<>>,
             snapshot |-> {}, attempts |-> [s \in Sockets |-> 0],
             ok |-> {}, failed |-> {}]

IdleBroadcast == [pc |-> "idle", cur |-> 0, rest |-> <<>>]

(***************************************************************************)
(* Part II.  TaskQueueService over the memory FIFO or the RedisStore list  *)
(***************************************************************************)

\* Largest workers argument given to start().
MaxWorkers == 1

\* Largest max_size argument given to start().
MaxQueueSize == 1

\* Number of enqueue() calls in a run.
MaxJobs == 2

\* Last reading of time.monotonic() that the run distinguishes.
MaxTime == 2

\* REDIS_RETRY_SECONDS as configured for the run, in clock ticks.
RetrySeconds == 1

\* The None that stop() puts on the FIFO for each worker.
Sentinel == 0

WorkerIds == 1..MaxWorkers

JobIds == 1..MaxJobs

JobKinds == {"ok", "raises"}

NoWorker == [pc |-> "none", loop |-> None, item |-> Sentinel]

\* TaskQueueService.__init__
InitialTaskQueue ==
    [started |-> FALSE, backend_requested |-> "memory", backend_active |-> "memory",
     has_queue |-> FALSE, queue |-> <<>>, worker_count |-> 0, max_size |-> 0,
     enqueued |-> 0, completed |-> 0, failed |-> 0,
     redis_queue_size_estimate |-> 0]

\* The producer's enqueue() call: where it is suspended, the job it carries,
\* whether the callable is a registered handler, and what the last call
\* returned.
IdleEnqueue == [pc |-> "idle", job |-> 0, registered |-> FALSE,
                handler_name |-> "unset", ret |-> None]

(***************************************************************************)
(* Part III.  RedisStore under concurrent callers                          *)
(***************************************************************************)

\* Coroutines that call ensure_connected() directly, at the same time.
MaxCallers == 1

\* The direct callers, and one more coroutine that runs the store operations.
Callers == 1..MaxCallers

OpCaller == MaxCallers + 1

Procs == 1..(MaxCallers + 1)

QueueOps == {"push_queue_item", "pop_queue_item", "get_queue_length"}

RegistryOps == {"set_ws_connection", "patch_ws_connection", "remove_ws_connection",
                "get_ws_registry"}

StoreOps == QueueOps \cup RegistryOps

\* What a coroutine may call.
OpsOf(c) == IF c = OpCaller THEN StoreOps ELSE {"ensure_connected"}

\* connection ids used as hash fields
ConnectionIds == 1..MaxSockets

\* What each operation returns when it cannot reach the store or its call
\* raises: the value of the early return and of the except clause.
SentinelOf(op) ==
    CASE op \in {"push_queue_item", "set_ws_connection", "patch_ws_connection",
                 "remove_ws_connection", "ensure_connected"} -> "False"
      [] op = "pop_queue_item" -> "None"
      [] op = "get_queue_length" -> "0"
      [] OTHER -> "{}"

IdleCaller == [pc |-> "idle"]

(***************************************************************************)
(* Part IV.  The HTTP middleware chain of app.main                         *)
(***************************************************************************)

\* ---- JSON values, tagged with their Python type after json.loads ----

JNull == [t |-> "null"]

JNum == [t |-> "number"]

JList == [t |-> "list"]

JStr(s) == [t |-> "str", s |-> s]

JDict(fields) == [t |-> "dict", fields |-> fields]

\* A body that json.loads rejects.
NotJson == [t |-> "invalid"]

IsDict(v) == v.t = "dict"

KeysOf(v) == IF IsDict(v) THEN DOMAIN v.fields ELSE {}

\* str.strip() on the strings the model uses.
Strip(s) ==
    CASE s = "  " -> ""
      [] s = " hi " -> "hi"
      [] s = " client-id " -> "client-id"
      [] OTHER -> s

\* ---- app/schemas/api_response.py ----

normalize_data(payload) ==
    IF payload.t = "null" THEN JNull
    ELSE IF IsDict(payload) THEN payload
    ELSE IF payload.t = "list" THEN JDict([items |-> payload])
    ELSE JDict([value |-> payload])

is_api_response_payload(payload) ==
    /\ IsDict(payload)
    /\ {"status", "message", "data"} \subseteq KeysOf(payload)

\* APIResponse(...).model_dump(by_alias=True, exclude_none=True): data and
\* requestId are left out when they are None.
model_dump(status, message, data, request_id) ==
    JDict(CASE data.t # "null" /\ request_id # None ->
                 [status |-> JStr(status), message |-> JStr(message),
                  data |-> data, requestId |-> JStr(request_id)]
            [] data.t # "null" /\ request_id = None ->
                 [status |-> JStr(status), message |-> JStr(message), data |-> data]
            [] data.t = "null" /\ request_id # None ->
                 [status |-> JStr(status), message |-> JStr(message),
                  requestId |-> JStr(request_id)]
            [] OTHER ->
                 [status |-> JStr(status), message |-> JStr(message)])

success_payload(data, message, request_id) ==
    model_dump("success", message, normalize_data(data), request_id)

error_payload(message, data, request_id) ==
    model_dump("error", message, normalize_data(data), request_id)

\* ---- app/main.py: helpers of the middleware ----

\* dict.setdefault(key, value)
SetDefault(payload, key, value) ==
    IF key \in KeysOf(payload) THEN payload
    ELSE JDict([k \in KeysOf(payload) \cup {key} |->
                  IF k = key THEN value ELSE payload.fields[k]])

derive_success_message(payload) ==
    IF /\ IsDict(payload)
       /\ "message" \in KeysOf(payload)
       /\ payload.fields["message"].t = "str"
       /\ Strip(payload.fields["message"].s) # ""
    THEN Strip(payload.fields["message"].s)
    ELSE "OK"

\* The paths the model sends requests to, and what startswith("/api"),
\* startswith("/api/ws") and the two path sets of the limiters say of them.
Paths == {"/api/forex/rates", "/api/ws/status", "/auth/login", "/auth/signup", "/health"}

StartsWithApi(path) == path \in {"/api/forex/rates", "/api/ws/status"}

StartsWithApiWs(path) == path = "/api/ws/status"

rate_limit_exempt == {"/health"}

auth_rate_limited_paths == {"/auth/login", "/auth/signup"}

\* The header X-Request-ID of a request: absent, blank, or an id.
InboundIds == {None, "  ", "client-id"}

\* request.headers.get("x-request-id") or "", stripped
InboundId(req) == IF req.x_request_id = None THEN "" ELSE Strip(req.x_request_id)

\* str(uuid.uuid4())
Minted == "uuid4"

request_id_from_request(state_request_id, req) ==
    IF state_request_id # None /\ Strip(state_request_id) # ""
    THEN Strip(state_request_id)
    ELSE IF InboundId(req) # "" THEN InboundId(req)
    ELSE None

\* JSONResponse(status_code=..., content=..., headers=...)
JSONResponse(status_code, content, headers) ==
    [status_code |-> status_code, content_type |-> "application/json",
     body |-> content, has_body |-> TRUE, headers |-> headers,
     x_request_id |-> None]

\* api_response_envelope_middleware, after call_next returned response.
\* has_body is whether the response object has a body attribute: a response
\* streamed through call_next has none.
ApiResponseEnvelope(req, state_request_id, response) ==
    IF \/ ~StartsWithApi(req.path)
       \/ StartsWithApiWs(req.path)
       \/ req.method = "OPTIONS"
       \/ response.status_code >= 400
    THEN response
    ELSE IF response.content_type # "application/json" THEN response
    ELSE IF ~response.has_body THEN response
    ELSE IF response.body.t = "invalid" THEN response
    ELSE LET decoded == response.body
             request_id == request_id_from_request(state_request_id, req)
             payload ==
                 IF is_api_response_payload(decoded)
                 THEN IF request_id # None
                      THEN SetDefault(decoded, "requestId", JStr(request_id))
                      ELSE decoded
                 ELSE success_payload(decoded, derive_success_message(decoded),
                                      request_id)
         IN  JSONResponse(response.status_code, payload, response.headers)

\* ---- the limiters ----

\* Client hosts.
Hosts == {"10.0.0.1", "10.0.0.2"}

\* RATE_LIMIT_MAX, RATE_LIMIT_WINDOW_SECONDS (120 and 60 by default) and
\* AUTH_RATE_LIMIT_MAX, AUTH_RATE_LIMIT_WINDOW_SECONDS (10 and 300), scaled.
RateLimitMax == 2

RateLimitWindow == 2

AuthRateLimitMax == 1

AuthRateLimitWindow == 1

\* The clock readings of a run.
MaxClock == 2

AuthKeys == Hosts \X auth_rate_limited_paths

\* defaultdict(deque): the deque of a key, empty for a key not seen before.
Bucket(store, key) == IF key \in DOMAIN store THEN store[key] ELSE <<>>

\* A limiter that never forgets a request.
Evict_Never(bucket, window_start) == bucket

\* while bucket and bucket[0] <= window_start: bucket.popleft()
\* The loop stops at the first timestamp inside the window.
Evict(bucket, window_start) ==
    LET inside == {i \in 1..Len(bucket) : bucket[i] > window_start}
        first == CHOOSE i \in inside : \A j \in inside : i <= j
    IN  IF inside = {} THEN <<>> ELSE SubSeq(bucket, first, Len(bucket))

\* The body shared by rate_limit_middleware and auth_rate_limit_middleware:
\* evict, then answer 429 or record the request and pass it on.
SlidingWindow(bucket, now, max, window) ==
    LET pruned == Evict(bucket, now - window)
    IN  IF Len(pruned) >= max
        THEN [admit |-> FALSE, bucket |-> pruned]
        ELSE [admit |-> TRUE, bucket |-> Append(pruned, now)]

\* ---- the chain ----

\* The middleware in the order main.py registers it: the decorated
\* functions from top to bottom, then the add_middleware calls.
RegistrationOrder ==
    <<"request_id", "envelope", "security_headers", "request_size_limit",
      "auth_rate_limit", "rate_limit", "strict_auth", "cors", "metrics",
      "error_tracking", "tracing">>

Reverse(s) == [i \in 1..Len(s) |-> s[Len(s) + 1 - i]]

\* Starlette's add_middleware inserts at the front of user_middleware and
\* the stack is built around the router from the back of that list: what was
\* registered last is outermost and meets the request first.
MiddlewareStack == Reverse(RegistrationOrder)

Methods == {"GET", "POST", "OPTIONS"}

\* A request as the chain reads it.  Content-Length is drawn for the
\* requests whose Content-Length is read: a POST under the API prefix.
Requests ==
    {r \in [method : Methods, path : Paths, host : Hosts, x_request_id : InboundIds,
            content_length : {"absent", "small", "large", "invalid"},
            token : {"valid", "invalid"}] :
        r.content_length # "absent" => (r.method = "POST" /\ StartsWithApi(r.path))}

\* What the route answers when the request reaches it.
Ok == [status_code |-> 200, content_type |-> "application/json",
       body |-> JDict([rates |-> JList]), has_body |-> TRUE, headers |-> {},
       x_request_id |-> None]

Answers ==
    {Ok, [Ok EXCEPT !.status_code = 404, !.body = JDict([detail |-> JStr("Not Found")])],
     [Ok EXCEPT !.content_type = "text/plain", !.body = NotJson]}

\* The headers security_headers_middleware sets on every response.
SecurityHeaders ==
    {"X-Content-Type-Options", "X-Frame-Options", "Referrer-Policy",
     "Permissions-Policy", "Cross-Origin-Opener-Policy",
     "Cross-Origin-Resource-Policy"}

\* security_headers_middleware, after call_next returned response.
WithSecurityHeaders(req, response) ==
    [response EXCEPT !.headers =
        @ \cup SecurityHeaders
          \cup (IF StartsWithApi(req.path) THEN {"Cache-Control"} ELSE {})
          \cup (IF req.method = "OPTIONS" THEN {"Access-Control-Max-Age"} ELSE {})]

\* request_size_limit_middleware: what it makes of Content-Length.
SizeLimitVerdict(req) ==
    IF req.method \in {"POST", "PUT", "PATCH"} /\ StartsWithApi(req.path)
       /\ req.content_length # "absent"
    THEN CASE req.content_length = "large" -> "too_large"
           [] req.content_length = "invalid" -> "invalid"
           [] OTHER -> "pass"
    ELSE "pass"

\* app.security.verify_http_request: returns for a request with a valid
\* bearer token and raises an HTTPException with status 401 otherwise.
VerifyHttpRequest(req) == req.token = "valid"

\* A gate that verifies no request.
Guarded_Never(req) == FALSE

\* strict_auth_middleware: the requests whose token is verified.
Guarded(req) == req.method # "OPTIONS" /\ StartsWithApi(req.path)

\* The request-scoped and shared state a request carries down the chain.
\* state_request_id is request.state.request_id, trace the middleware
\* entered so far, store and auth_store the buckets of the two limiters,
\* allowed the history of the requests they passed on.
StartOfRequest ==
    [state_request_id |-> None, trace |-> <<>>, store |-> rate_limit_store,
     auth_store |-> auth_rate_limit_store, allowed |-> passed]

\* The chain from the given middleware inwards, ending in the route.  The
\* result is the response handed back outwards and the state left behind.
RECURSIVE Dispatch(_, _, _, _, _)
Dispatch(stack, req, answer, buffered, ctx) ==
    IF stack = <<>>
    THEN [response |-> answer, ctx |-> [ctx EXCEPT !.trace = Append(@, "route")]]
    ELSE
    LET mw == Head(stack)
        here == [ctx EXCEPT !.trace = Append(@, mw)]
        call_next(c) == Dispatch(Tail(stack), req, answer, buffered, c)
        stop(response) == [response |-> response, ctx |-> here]
        rid == request_id_from_request(here.state_request_id, req)
    IN  CASE mw = "request_id" ->
               LET request_id == IF InboundId(req) # "" THEN InboundId(req) ELSE Minted
                   r == call_next([here EXCEPT !.state_request_id = request_id])
               IN  [r EXCEPT !.response.x_request_id = request_id]
          [] mw = "envelope" ->
               LET r == call_next(here)
               IN  [r EXCEPT !.response =
                       ApiResponseEnvelope(req, r.ctx.state_request_id,
                                           [r.response EXCEPT !.has_body = buffered])]
          [] mw = "security_headers" ->
               LET r == call_next(here)
               IN  [r EXCEPT !.response = WithSecurityHeaders(req, r.response)]
          [] mw = "request_size_limit" ->
               CASE SizeLimitVerdict(req) = "too_large" ->
                      stop(JSONResponse(413,
                              error_payload("Request payload too large", JNull, rid), {}))
                 [] SizeLimitVerdict(req) = "invalid" ->
                      stop(JSONResponse(400,
                              error_payload("Invalid Content-Length header", JNull, rid), {}))
                 [] OTHER -> call_next(here)
          [] mw = "auth_rate_limit" ->
               IF req.method = "OPTIONS" \/ req.path \notin auth_rate_limited_paths
               THEN call_next(here)
               ELSE LET key == <<req.host, req.path>>
                        w == SlidingWindow(Bucket(here.auth_store, key), clock,
                                           AuthRateLimitMax, AuthRateLimitWindow)
                        counted == [here EXCEPT !.auth_store = DictSet(@, key, w.bucket)]
                    IN  IF ~w.admit
                        THEN [response |->
                                JSONResponse(429,
                                    error_payload("Too many auth requests. Please wait and retry.",
                                                  JNull, rid),
                                    {"Retry-After"}),
                              ctx |-> counted]
                        ELSE call_next([counted EXCEPT
                                 !.allowed.auth =
                                    DictSet(@, key, Append(Bucket(@, key), clock))])
          [] mw = "rate_limit" ->
               IF req.path \in rate_limit_exempt
               THEN call_next(here)
               ELSE LET w == SlidingWindow(Bucket(here.store, req.host), clock,
                                           RateLimitMax, RateLimitWindow)
                        counted == [here EXCEPT !.store = DictSet(@, req.host, w.bucket)]
                    IN  IF ~w.admit
                        THEN [response |->
                                JSONResponse(429,
                                    error_payload("Rate limit exceeded", JNull, rid), {}),
                              ctx |-> counted]
                        ELSE call_next([counted EXCEPT
                                 !.allowed.global =
                                    DictSet(@, req.host, Append(Bucket(@, req.host), clock))])
          [] mw = "strict_auth" ->
               IF Guarded(req) /\ ~VerifyHttpRequest(req)
               THEN stop(JSONResponse(401, error_payload("Unauthorized", JNull, rid), {}))
               ELSE call_next(here)
          [] mw = "tracing" ->
               LET r == call_next(here)
               IN  [r EXCEPT !.response.headers = @ \cup {"X-Trace-ID", "X-Span-ID"}]
          [] OTHER -> call_next(here)

\* Nothing served yet.
NoExchange == [served |-> FALSE]

NoEnvelope == [stage |-> "none"]

(***************************************************************************)
(* Part V.  Ops alerts (app/ops_routes.py)                                 *)
(***************************************************************************)

\* _build_alerts, lines 109-114: the thresholds, at their defaults.
queue_warn == 80
queue_crit == 150
queue_failed_warn == 1
ws_stale_warn == 1
forex_failure_warn == 3
forex_retry_warn == 20

\* An alert as _build_alerts appends it; message and threshold are fixed by
\* the id and are left out.
Alert(id, severity, value) == [value |-> value, id |-> id, severity |-> severity]

\* The readings _build_alerts takes from the snapshot: each one below, at and
\* above its thresholds.  The stale-connection count and the retry delay stay
\* below theirs.
Snapshots ==
    [queue_size : {0, queue_warn, queue_crit},
     failed : {0, queue_failed_warn, queue_failed_warn + 1},
     stale_connections : {0},
     rate_failure_streak : {0, forex_failure_warn},
     next_rates_retry_in_seconds : {0}]

\* _build_alerts, lines 102-186: the list of alerts, in the order of the rules;
\* the critical depth rule shadows the warning one (elif).
build_alerts(snapshot) ==
    (IF snapshot.queue_size >= queue_crit
     THEN <<Alert("queue_depth_critical", "critical", snapshot.queue_size)>>
     ELSE IF snapshot.queue_size >= queue_warn
          THEN <<Alert("queue_depth_warning", "warning", snapshot.queue_size)>>
          ELSE <<>>)
    \o (IF snapshot.failed >= queue_failed_warn
        THEN <<Alert("queue_failed_tasks", "warning", snapshot.failed)>>
        ELSE <<>>)
    \o (IF snapshot.stale_connections >= ws_stale_warn
        THEN <<Alert("websocket_stale_connections", "warning",
                     snapshot.stale_connections)>>
        ELSE <<>>)
    \o (IF snapshot.rate_failure_streak >= forex_failure_warn
        THEN <<Alert("forex_rate_failure_streak", "warning",
                     snapshot.rate_failure_streak)>>
        ELSE <<>>)
    \o (IF snapshot.next_rates_retry_in_seconds >= forex_retry_warn
        THEN <<Alert("forex_retry_backoff_high", "warning",
                     snapshot.next_rates_retry_in_seconds)>>
        ELSE <<>>)

IdsOf(alerts) == {alerts[i].id : i \in 1..Len(alerts)}

\* _severity_rank, lines 189-191.
severity_rank(severity) ==
    CASE severity = "info" -> 1
      [] severity = "warning" -> 2
      [] severity = "critical" -> 3
      [] OTHER -> 1

\* _should_emit_webhook, lines 194-196.
should_emit_webhook(alert, min_severity) ==
    severity_rank(alert.severity) >= severity_rank(min_severity)

\* The webhook settings read from the environment on every call.
WebhookSettings == [url_set : BOOLEAN, min_severity : {"warning", "critical"}]

\* _send_alert_webhook, lines 233-265: the POSTs it issues; a failed POST is
\* printed and swallowed.
send_alert_webhook(event_type, alert, settings) ==
    IF ~settings.url_set \/ ~should_emit_webhook(alert, settings.min_severity)
    THEN <<>>
    ELSE <<[event_type |-> event_type, id |-> alert.id]>>

\* The latch is a dict, which keeps its keys in insertion order.
LatchIds(latch) == {latch[i].id : i \in 1..Len(latch)}

\* _alert_latch[alert_id] = {...}, lines 284-290.
LatchPut(latch, alert) ==
    IF alert.id \in LatchIds(latch)
    THEN [i \in 1..Len(latch) |->
             IF latch[i].id = alert.id THEN alert ELSE latch[i]]
    ELSE Append(latch, alert)

\* _alert_latch.pop(alert_id, None), line 298.
LatchPop(latch, id) == SelectSeq(latch, LAMBDA a : a.id # id)

\* One call of _send_alert_webhook.
HookCall(event_type, alert) == [event_type |-> event_type, id |-> alert.id]

\* _emit_alert_hooks, lines 275-290: the loop over the new or still-active
\* alerts.
RECURSIVE TriggerLoop(_, _, _)
TriggerLoop(alerts, settings, run) ==
    IF alerts = <<>> THEN run
    ELSE LET alert == Head(alerts)
             fresh == alert.id \notin LatchIds(run.latch)
         IN  TriggerLoop(Tail(alerts), settings,
                [latch |-> LatchPut(run.latch, alert),
                 calls |-> IF fresh
                           THEN Append(run.calls, HookCall("triggered", alert))
                           ELSE run.calls,
                 posts |-> IF fresh
                           THEN run.posts
                                \o send_alert_webhook("triggered", alert, settings)
                           ELSE run.posts])

\* _emit_alert_hooks, line 293: the latched alerts that are no longer active,
\* in the order of the latch.
Resolved_Nothing(latch, active_ids) == <<>>
Resolved(latch, active_ids) == SelectSeq(latch, LAMBDA a : a.id \notin active_ids)

\* _emit_alert_hooks, lines 294-298: the loop over the resolved alerts.
RECURSIVE ResolveLoop(_, _, _)
ResolveLoop(resolved, settings, run) ==
    IF resolved = <<>> THEN run
    ELSE LET previous == Head(resolved)
         IN  ResolveLoop(Tail(resolved), settings,
                [latch |-> LatchPop(run.latch, previous.id),
                 calls |-> Append(run.calls, HookCall("resolved", previous)),
                 posts |-> run.posts
                           \o send_alert_webhook("resolved", previous, settings)])

\* _emit_alert_hooks, lines 268-298.
emit_alert_hooks(enabled, alerts, settings, latch) ==
    LET start == [latch |-> latch, calls |-> <<>>, posts |-> <<>>]
    IN  IF ~enabled THEN start
        ELSE LET triggered == TriggerLoop(alerts, settings, start)
             IN  ResolveLoop(Resolved(triggered.latch, IdsOf(alerts)),
                             settings, triggered)

\* No evaluation yet.
NoHookRun == [ran |-> FALSE]

(***************************************************************************)
(* Part VI.  Task records, the create endpoint and the task handlers       *)
(* (app/ai_task_routes.py, the HEAD side of its merge conflicts; main.py)  *)
(***************************************************************************)

\* How many tasks are created, how many currency pairs a request names, and
\* how many rounds the monitoring loop of the auto-trade handler makes.
MaxTasks == 1
MaxPairs == 2
MaxRounds == 1

TaskIds == 1..MaxTasks

\* The task types create_task starts a handler for (lines 738-743), and the
\* values task_type, a plain str, may carry.
TaskTypes == {"market_analysis", "auto_trade", "forecast"}
RequestedTypes == TaskTypes \cup {"portfolio_monitor"}

\* create_task, lines 672-691.
steps_map(task_type) ==
    CASE task_type = "market_analysis" ->
           <<"Fetch Data", "Analyze Markets", "Generate Signals", "Create Report">>
      [] task_type = "auto_trade" ->
           <<"Initialize Engine", "Monitor Markets", "Execute Trades",
             "Manage Positions">>
      [] task_type = "forecast" ->
           <<"Collect Historical Data", "Train AI Model", "Generate Predictions",
             "Create Forecast Report">>

\* create_task, line 693: steps_map.get(task.task_type, steps_map["market_analysis"]).
StepsOfType(task_type) ==
    IF task_type \in TaskTypes THEN steps_map(task_type)
    ELSE steps_map("market_analysis")

NewSteps(names) ==
    [i \in 1..Len(names) |-> [name |-> names[i], isCompleted |-> FALSE]]

\* create_task, lines 697-714: the record handed to the task store.
task_data(task_type) ==
    [taskType |-> task_type, status |-> "running", currentStep |-> 0,
     totalSteps |-> Len(StepsOfType(task_type)),
     steps |-> NewSteps(StepsOfType(task_type)), resultFileUrl |-> None]

\* main.py, create_task, lines 287-303: the record put into tasks_db.
legacy_task == [taskType |-> "forex_analysis", status |-> "pending",
                currentStep |-> 0, totalSteps |-> 0, steps |-> <<>>,
                resultFileUrl |-> None]

\* main.py, process_forex_analysis_task, lines 81-87.
legacy_steps ==
    <<"Initializing AI analysis", "Fetching market data", "Analyzing trends",
      "Generating predictions", "Compiling report">>

\* _complete_step, lines 135-146: the copy of the steps with the named step
\* marked, whether anything was marked, and the count of completed steps.
CompletedCount(steps) ==
    Cardinality({i \in 1..Len(steps) : steps[i].isCompleted})

MarkStep(steps, step_name) ==
    [i \in 1..Len(steps) |->
        IF steps[i].name = step_name /\ ~steps[i].isCompleted
        THEN [steps[i] EXCEPT !.isCompleted = TRUE]
        ELSE steps[i]]

Updated(steps, step_name) ==
    \E i \in 1..Len(steps) : steps[i].name = step_name /\ ~steps[i].isCompleted

\* The currentStep written by a _complete_step that skips the recount.
CurrentStepWritten_Stale(record, steps, step_name) == record.currentStep

\* _complete_step, lines 149-152: currentStep is the completed count.
CurrentStepWritten(record, steps, step_name) ==
    CompletedCount(MarkStep(steps, step_name))

\* One instruction of a handler: a store update of the status, a frame sent
\* through ws_manager, awaits on ai_engine (which may raise), a
\* _complete_step, a check that raises, or the final store update.  Progress
\* is kept in percent.
I(op, arg, progress) == [op |-> op, arg |-> arg, progress |-> progress]

RECURSIVE Repeat(_, _)
Repeat(seq, n) == IF n = 0 THEN <<>> ELSE seq \o Repeat(seq, n - 1)

\* A variant that reports on the pairs once, after the loop, instead of once
\* for every pair.
MarketAnalysisScript_OneInfo(pairs) ==
    <<I("status", "running", 0),
      I("progress", "Fetching Data", 20),
      I("engine", "initialize, fetch_live_rates, fetch_economic_calendar", 0),
      I("step", "Fetch Data", 0),
      I("progress", "Analyzing Markets", 40)>>
    \o Repeat(<<I("engine", "analyze, signal, forecast", 0)>>, pairs)
    \o <<I("info", "pair", 0),
         I("step", "Analyze Markets", 0),
         I("step", "Generate Signals", 0),
         I("progress", "Generating Report", 80),
         I("step", "Create Report", 0),
         I("complete", "market_analysis.pdf", 100),
         I("finish", "market_analysis.pdf", 0)>>

\* execute_market_analysis_task, lines 232-363, for a request naming `pairs`
\* currency pairs.
MarketAnalysisScript(pairs) ==
    <<I("status", "running", 0),
      I("progress", "Fetching Data", 20),
      I("engine", "initialize, fetch_live_rates, fetch_economic_calendar", 0),
      I("step", "Fetch Data", 0),
      I("progress", "Analyzing Markets", 40)>>
    \o Repeat(<<I("engine", "analyze, signal, forecast", 0),
                I("info", "pair", 0)>>, pairs)
    \o <<I("step", "Analyze Markets", 0),
         I("step", "Generate Signals", 0),
         I("progress", "Generating Report", 80),
         I("step", "Create Report", 0),
         I("complete", "market_analysis.pdf", 100),
         I("finish", "market_analysis.pdf", 0)>>

\* One round of the monitoring loop of execute_auto_trading_task, lines
\* 417-490, in which every pair yields an executed trade and one position is
\* closed when `trades` holds, and nothing is traded otherwise.
AutoTradeRound(i, pairs, trades) ==
    <<I("engine", "fetch_live_rates", 0)>>
    \o Repeat(<<I("engine", "analyze, signal, execute_auto_trade", 0)>>
              \o (IF trades
                  THEN <<I("success", "AUTO-TRADE", 0), I("step", "Execute Trades", 0)>>
                  ELSE <<>>), pairs)
    \o <<I("engine", "monitor_positions", 0)>>
    \o (IF trades
        THEN <<I("success", "Position closed", 0), I("step", "Manage Positions", 0)>>
        ELSE <<>>)
    \o <<I("progress", "Active Trading", 30 + i * 10)>>

RECURSIVE AutoTradeRounds(_, _, _)
AutoTradeRounds(i, pairs, trades) ==
    IF i >= MaxRounds THEN <<>>
    ELSE AutoTradeRound(i, pairs, trades) \o AutoTradeRounds(i + 1, pairs, trades)

\* execute_auto_trading_task, lines 383-517.
AutoTradeScript(pairs, trades, user_limits) ==
    <<I("status", "running", 0),
      I("engine", "initialize", 0),
      I("progress", "Initializing", 10),
      I("step", "Initialize Engine", 0)>>
    \o (IF user_limits THEN <<>> ELSE <<I("raise", "Trading limits required", 0)>>)
    \o <<I("progress", "Monitoring Markets", 30),
         I("step", "Monitor Markets", 0)>>
    \o AutoTradeRounds(0, pairs, trades)
    \o <<I("complete", "trading_report.pdf", 100),
         I("finish", "trading_report.pdf", 0)>>

\* execute_forecast_task, lines 537-622.
ForecastScript(pairs) ==
    <<I("status", "running", 0),
      I("engine", "initialize", 0),
      I("progress", "Collecting Data", 20),
      I("engine", "fetch_live_rates", 0),
      I("step", "Collect Historical Data", 0),
      I("progress", "Generating Forecasts", 50),
      I("step", "Train AI Model", 0)>>
    \o Repeat(<<I("engine", "forecast_price_movement", 0),
                I("info", "pair", 0)>>, pairs)
    \o <<I("step", "Generate Predictions", 0),
         I("complete", "forecasts.pdf", 100),
         I("step", "Create Forecast Report", 0),
         I("finish", "forecasts.pdf", 0)>>

\* What a create request carries that the handlers look at.
Params == [task_type : RequestedTypes, pairs : 0..MaxPairs,
           trades : BOOLEAN, user_limits : BOOLEAN]

\* create_task, lines 738-743: the handler started for the task type.
Script(params) ==
    CASE params.task_type = "market_analysis" -> MarketAnalysisScript(params.pairs)
      [] params.task_type = "auto_trade" ->
           AutoTradeScript(params.pairs, params.trades, params.user_limits)
      [] params.task_type = "forecast" -> ForecastScript(params.pairs)

\* The frame send_update builds (lines 160-168) from what send_task_progress,
\* send_task_complete and send_error pass on (lines 279-307).
Frame(type, step, progress, file_url) ==
    [type |-> type, step |-> step, progress |-> progress, file_url |-> file_url]

\* progress=None, the default of send_update (line 153).
NoProgress == -1

\* The create requests told apart by what the handler of their type reads.
CreateRequests ==
    {p \in Params :
        /\ p.task_type # "auto_trade" => (~p.trades /\ ~p.user_limits)
        /\ p.task_type = "portfolio_monitor" => p.pairs = 0
        /\ (p.task_type = "auto_trade" /\ ~p.user_limits) => (~p.trades /\ p.pairs = 0)}

\* The arguments of process_forex_analysis_task, which reads none of them.
legacy_params == [task_type |-> "forex_analysis", pairs |-> 0,
                  trades |-> FALSE, user_limits |-> FALSE]

\* A handler coroutine: its request, the instruction it is at, and where it
\* is suspended.
NewHandler(params) ==
    [params |-> params, pc |-> 1, at |-> "running", copy |-> <<>>, caught |-> FALSE]

\* TaskService.update_task(task_id, updates): the named fields are replaced,
\* the others kept.
update_task(db, task_id, updates) ==
    [db EXCEPT ![task_id] =
        [f \in DOMAIN @ |-> IF f \in DOMAIN updates THEN updates[f] ELSE @[f]]]

\* No create request answered yet.
NoAnswer == [answered |-> FALSE]

(***************************************************************************)
(* Part VII.  One session of a duplex endpoint followed over time          *)
(* (app/websocket_routes.py lines 26-70 and the manager calls they make)   *)
(***************************************************************************)

\* The heartbeat settings the timing statements are read with, in seconds.
heartbeat_interval == 1
heartbeat_timeout == 4

\* How long the session is followed: one second past the latest moment a
\* silent session may still be registered.
MaxSessionTime == heartbeat_timeout + heartbeat_interval + 1

\* The topics a client can open: /api/ws and /api/ws/{task_id}.
SessionTopics == {"global", "task-1"}

\* The frame send_update writes (lines 161-169), as far as its type and
\* topic go.
Written(type, task_id) == [type |-> type, task_id |-> task_id]

\* The session before the client opens it.
Unopened ==
    [pc |-> "unopened", task_id |-> "global", now |-> 0, registered |-> FALSE,
     last_seen |-> 0, frames |-> {}, ponged |-> FALSE, pong_at |-> 0,
     active_at |-> 0, reason |-> None]

\* mark_connection_alive, lines 112-125: last_seen becomes now() when the
\* socket still has registry metadata, and nothing happens otherwise.
mark_connection_alive(sess) ==
    IF sess.registered THEN [sess EXCEPT !.last_seen = sess.now] ELSE sess

\* disconnect(websocket, task_id, reason), lines 84-110, for this session.
disconnect(sess, reason) ==
    IF sess.registered
    THEN [sess EXCEPT !.registered = FALSE, !.reason = reason]
    ELSE sess

\* send_update(..., websocket=websocket), lines 179-195: one write to the
\* socket; success refreshes last_seen, failure disconnects with
\* send_failure and is swallowed.
send_to_socket(sess, type, ok) ==
    IF ok
    THEN mark_connection_alive(
             [sess EXCEPT !.frames = @ \cup {Written(type, sess.task_id)},
                          !.active_at = sess.now])
    ELSE disconnect(sess, "send_failure")

(***************************************************************************)
(* Part VIII.  ForexDataService.get_currency_rates                         *)
(* (app/forex_data_service.py lines 30-48 and 99-202)                      *)
(***************************************************************************)

\* _min_rates_fetch_interval_seconds at its default, line 45, and the two
\* caps of the backoff, line 189.
min_rates_fetch_interval_seconds == 3
backoff_cap_seconds == 90
backoff_exponent_cap == 6

\* The readings of time.monotonic() in whole seconds, and how many fetches
\* in a row fail.
MaxMonotonic == 4
MaxStreak == 7

\* __init__, lines 30-48: nothing cached, no failure, no call in progress.
NewForexService ==
    [latest_rates |-> "empty", last_rates_fetch |-> 0, rate_failure_streak |-> 0,
     next_rates_retry |-> 0, monotonic |-> 0, pc |-> "idle", now |-> 0,
     returned |-> "nothing", result |-> [same_object |-> FALSE, content |-> "empty"],
     backoff_seconds |-> 0]

\* Whether self._latest_rates is a non-empty dict.
HasRates(svc) == svc.latest_rates # "empty"

\* A variant that hands out the dict it was given instead of a new one.
dict_Same(content) == [same_object |-> TRUE, content |-> content]

\* dict(self._latest_rates), lines 109, 112, 161 and 174: a new dict with
\* the content of the cache; same_object tells whether a dict is the very
\* object self._latest_rates refers to.
dict(content) == [same_object |-> FALSE, content |-> content]

\* A variant whose delay doubles without end.
record_rates_fetch_error_Uncapped(svc) ==
    LET backoff_seconds == 2 ^ (svc.rate_failure_streak + 1)
    IN  [svc EXCEPT !.rate_failure_streak = @ + 1,
                    !.backoff_seconds = backoff_seconds,
                    !.next_rates_retry = svc.monotonic + backoff_seconds]

\* _record_rates_fetch_error, lines 187-190: the streak goes up and the next
\* retry is put min(90, 2 ** min(streak, 6)) seconds after the present time.
record_rates_fetch_error(svc) ==
    LET backoff_seconds ==
            Min(backoff_cap_seconds,
                2 ^ Min(svc.rate_failure_streak + 1, backoff_exponent_cap))
    IN  [svc EXCEPT !.rate_failure_streak = @ + 1,
                    !.backoff_seconds = backoff_seconds,
                    !.next_rates_retry = svc.monotonic + backoff_seconds]

\* Lines 160-171 and 173-184: the cached table if there is one, else the
\* static table.
CacheOrStatic(svc) == IF HasRates(svc) THEN "cache" ELSE "static"

\* The dict those lines return: a copy of the cache, or the literal table.
CacheOrStaticResult(svc) ==
    IF HasRates(svc)
    THEN dict(svc.latest_rates)
    ELSE [same_object |-> FALSE, content |-> "static"]

(***************************************************************************)
(* Part IX.  The forex stream                                              *)
(* (app/enhanced_websocket_manager.py lines 315-357,                       *)
(*  app/forex_data_service.py lines 50-65 and 555-610)                     *)
(***************************************************************************)

\* How many stream tasks are created in a run.
MaxStreamTasks == 2

StreamTaskIds == 1..MaxStreamTasks

\* The intervals start_forex_stream is called with, in seconds.
StreamIntervals == {10, 30}

\* No entry under "forex_stream" in streaming_tasks.
NoStreamTask == 0

\* The awaits a stream task can be suspended at: asyncio.sleep while nobody
\* is connected (lines 572, 575), the upstream request of get_currency_rates
\* (580), the broadcast of the callback (594), asyncio.sleep at the end of
\* a cycle (604), and self.close() in the finally block (610).
StreamAwaits == {"idle_sleep", "fetch", "callback", "sleep", "closing"}

\* A task not yet created.
Unborn == [pc |-> "unborn", must_cancel |-> FALSE, idled |-> FALSE, cleaned |-> FALSE]

\* __init__ of both singletons: not running, no HTTP session, no stream
\* task; interval 10 by default (enhanced_websocket_manager.py line 30).
NewStream ==
    [running |-> FALSE, session |-> "none", streaming_task |-> NoStreamTask,
     forex_stream_interval |-> 10, created |-> 0, sessions |-> FALSE]

InQueue(queue, t) == \E i \in 1..Len(queue) : queue[i] = t

\* A variant of the event loop that runs the callback scheduled last first.
call_soon_First(queue, t) == <<t>> \o queue

\* loop.call_soon: the callback goes to the end of the loop's ready queue.
call_soon(queue, t) == Append(queue, t)

\* Task.cancel(): nothing for a finished task; otherwise the task is marked,
\* and when it is suspended on a future that future is cancelled, which
\* schedules the task's wake-up at once.
Cancel(tasks_, queue, t) ==
    IF tasks_[t].pc = "done"
    THEN [tasks |-> tasks_, ready |-> queue]
    ELSE [tasks |-> [tasks_ EXCEPT ![t].must_cancel = TRUE],
          ready |-> IF InQueue(queue, t) THEN queue ELSE call_soon(queue, t)]

\* is_forex_stream_running, lines 315-318.
is_forex_stream_running(s, tasks_) ==
    s.streaming_task # NoStreamTask /\ tasks_[s.streaming_task].pc # "done"

\* A variant that polls whether or not anybody is connected.
should_poll_Always(s) == TRUE

\* should_poll, lines 339-340: bool(self.all_connections).
should_poll(s) == s.sessions

\* initialize, lines 50-59: a new HTTP session unless an open one exists.
initialize(s) == [s EXCEPT !.session = "open"]

\* stream_live_data, lines 568-580, from the loop test to the next await:
\* the loop ends when running is cleared; without sessions the task sleeps
\* for the interval; otherwise it issues the fetch of get_currency_rates,
\* which opens an HTTP session when there is none (lines 118-119).
\* The result names the await reached, or "exit" for the end of the loop.
LoopTop(s) ==
    IF ~s.running THEN "exit"
    ELSE IF ~should_poll(s) THEN "idle_sleep"
    ELSE "fetch"

\* Lines 606-610 up to the await in close(): running is cleared and, when
\* there is an HTTP session, session.close() is awaited (lines 61-65).
CleanupStream(s) == [s EXCEPT !.running = FALSE,
                              !.session = IF @ = "none" THEN "none" ELSE "closed"]

(***************************************************************************)
(* Part X.  Positions, forecasts, background store writes, hook runs       *)
(***************************************************************************)

\* Prices on a whole-number grid, and position sizes.
MaxPrice == 4
MaxQuantity == 2
Prices == 0..MaxPrice
Quantities == 0..MaxQuantity

\* The positions build_trade (app/ai/risk_engine.py lines 21-43) leaves in
\* active_positions.
Positions ==
    [action : {"BUY", "SELL"}, entry_price : Prices, quantity : Quantities,
     stop_loss : Prices, take_profit : Prices, status : {"OPEN"}]

Closed(position, current_price, pnl) ==
    [action |-> position.action, entry_price |-> position.entry_price,
     quantity |-> position.quantity, stop_loss |-> position.stop_loss,
     take_profit |-> position.take_profit, status |-> "CLOSED",
     close_price |-> current_price, profit |-> pnl]

\* RiskEngine.evaluate_position, app/ai/risk_engine.py lines 45-72.  The
\* value None is the position returned as it is, still OPEN.
evaluate_position(position, current_price) ==
    LET entry_price == position.entry_price
        quantity == position.quantity
        pnl == IF position.action = "BUY"
               THEN (current_price - entry_price) * quantity
               ELSE (entry_price - current_price) * quantity
        take_profit_threshold == (position.take_profit - entry_price) * quantity
        stop_loss_threshold == -(entry_price - position.stop_loss) * quantity
        should_close == pnl >= take_profit_threshold \/ pnl <= stop_loss_threshold
    IN  IF should_close THEN Closed(position, current_price, pnl) ELSE position

NoEvaluation ==
    [pc |-> "empty", called |-> FALSE, current_price |-> 0,
     position |-> [action |-> "BUY", entry_price |-> 0, quantity |-> 0,
                   stop_loss |-> 0, take_profit |-> 0, status |-> "OPEN"],
     closed_trade |-> [action |-> "BUY", entry_price |-> 0, quantity |-> 0,
                       stop_loss |-> 0, take_profit |-> 0, status |-> "OPEN"]]
\* Currency codes, and the ways a caller writes a pair: "EUR/USD", "EURUSD",
\* or a text that is neither.
Currencies == {"USD", "EUR", "JPY"}
PairForms == {"slashed", "six", "other"}
PairTexts == [form : PairForms, base : Currencies, quote : Currencies]

\* The longest price history of a pair looked at.
MaxHistory == 48
HistoryDepths == 0..MaxHistory

\* _normalize_pair, app/forex_data_service.py lines 204-210: a text of six
\* letters gets its slash, any other text without one stays as it is.
normalize_pair(pair) ==
    [slash |-> pair.form \in {"slashed", "six"}, base |-> pair.base, quote |-> pair.quote]

\* _derive_pair_from_usd_table, lines 225-255, for a table holding a positive
\* rate for the codes in `table`: whether it returns a price.
derive_pair_from_usd_table(pair, table) ==
    IF ~pair.slash THEN FALSE
    ELSE IF table = {} THEN FALSE
    ELSE IF pair.base = pair.quote THEN TRUE
    ELSE IF pair.base = "USD" THEN pair.quote \in table
    ELSE IF pair.quote = "USD" THEN pair.base \in table
    ELSE pair.base \in table /\ pair.quote \in table

\* int(round(x)) of a value given in hundredths: to the nearest whole number,
\* a tie going to the even one.
round(hundredths) ==
    LET q == hundredths \div 100
        r == hundredths % 100
    IN  IF r > 50 THEN q + 1
        ELSE IF r < 50 THEN q
        ELSE IF q % 2 = 0 THEN q ELSE q + 1

trend_score(trend) == IF trend = "bullish" THEN 1 ELSE IF trend = "bearish" THEN -1 ELSE 0

\* A variant without the cap on the history strength and without the two
\* limits on the result.
confidence_percent_Unlimited(history_len, trend, momentum_score, volatility) ==
    LET history_strength_22 == 55 * history_len
        direction_alignment_18 ==
            IF trend_score(trend) = momentum_score /\ trend_score(trend) # 0 THEN 1800
            ELSE IF trend_score(trend) = 0 \/ momentum_score = 0 THEN 1080
            ELSE 630
    IN  round(5000 + history_strength_22 + direction_alignment_18
                  - (IF volatility = "high" THEN 800 ELSE 0))

\* The confidence of get_pair_forecast, lines 337-352, computed in
\* hundredths: history_strength * 22 is 55 hundredths for every price of
\* the history up to forty, direction_alignment * 18 is 18, 10.8 or 6.3.
confidence_percent(history_len, trend, momentum_score, volatility) ==
    LET history_strength_22 == 55 * Min(history_len, 40)
        direction_alignment_18 ==
            IF trend_score(trend) = momentum_score /\ trend_score(trend) # 0 THEN 1800
            ELSE IF trend_score(trend) = 0 \/ momentum_score = 0 THEN 1080
            ELSE 630
    IN  round(Max(4500, Min(9200,
                  5000 + history_strength_22 + direction_alignment_18
                  - (IF volatility = "high" THEN 800 ELSE 0))))

NoForecast ==
    [pc |-> "idle", called |-> FALSE,
     normalized_pair |-> [slash |-> FALSE, base |-> "USD", quote |-> "USD"],
     cached |-> FALSE, derived |-> FALSE, history_len |-> 0, trend |-> "neutral",
     momentum_score |-> 0, volatility |-> "medium", confidence_percent |-> 0]
\* How many last_seen patches are scheduled for the session that is followed.
MaxPatches == 2
PatchIds == 1..MaxPatches

\* A session not yet connected: nothing registered, no store operation
\* scheduled (an operation is "none", in flight at "hset", "hget" or "hdel",
\* or "done"), no entry under its connection_id in the registry hash.
NoSession ==
    [pc |-> "unopened", registered |-> FALSE, set |-> "none",
     patch |-> [p \in PatchIds |-> "none"], removal |-> "none",
     entry |-> FALSE, failed |-> FALSE]

\* HSET of the connection's field: with the command carried out the hash
\* holds the entry, with an exception it is as before.
hset(entry, ok) == IF ok THEN TRUE ELSE entry

\* HDEL of the connection's field.
hdel(entry, ok) == IF ok THEN FALSE ELSE entry
\* How many evaluations run _emit_alert_hooks at a time.
MaxEmitters == 2
EmitterIds == 1..MaxEmitters

\* The readings the concurrent evaluations see: the queue depth and the
\* failed count below or at their warning thresholds.
EmitterSnapshots ==
    {s \in Snapshots : s.queue_size < queue_crit /\ s.failed <= queue_failed_warn
                       /\ s.rate_failure_streak = 0}
EmitterAlertIds == {"queue_depth_warning", "queue_failed_tasks"}

IdleEmitter == [pc |-> "idle", alerts |-> <<>>, i |-> 0, resolved |-> <<>>]

\* No evaluation in progress and no webhook call made: `last` is the event
\* type of the last call made for an id, `repeated` whether a call for the id
\* ever failed to alternate.
NoEmitters ==
    [run |-> [e \in EmitterIds |-> IdleEmitter],
     last |-> [id \in EmitterAlertIds |-> "none"],
     repeated |-> [id \in EmitterAlertIds |-> FALSE]]

\* _emit_alert_hooks, lines 275-290, from the alert at index i up to the next
\* alert that is not latched, for which the webhook is awaited: the alerts
\* latched already are written to the latch again on the way.
RECURSIVE TriggerFrom(_, _, _)
TriggerFrom(alerts, i, latch) ==
    IF i > Len(alerts) THEN [i |-> i, latch |-> latch]
    ELSE IF alerts[i].id \in LatchIds(latch)
         THEN TriggerFrom(alerts, i + 1, LatchPut(latch, alerts[i]))
         ELSE [i |-> i, latch |-> latch]

\* The event type a call for an id may have after the last one made for it.
Alternates(last_type, event_type) ==
    IF event_type = "triggered" THEN last_type \in {"none", "resolved"}
    ELSE last_type = "triggered"

\* _send_alert_webhook(event_type, alert) is called, lines 283 and 297.
CallMade(em, event_type, id) ==
    [em EXCEPT !.last[id] = event_type,
               !.repeated[id] = @ \/ ~Alternates(em.last[id], event_type)]

Init ==
    /\ active_connections = EmptyDict
    /\ all_connections = {}
    /\ connection_registry = EmptyDict
    /\ websocket_to_connection_id = EmptyDict
    /\ uuid_counter = 0
    /\ removals_scheduled = 0
    /\ ep = [s \in Sockets |-> [pc |-> "init", task_id |-> None]]
    /\ snd = IdleSend
    /\ bc = IdleBroadcast
    /\ live = {}
    /\ tq = InitialTaskQueue
    /\ workers = [w \in WorkerIds |-> NoWorker]
    /\ ctl = [pc |-> "idle", workers_arg |-> 0, max_size_arg |-> 0,
              sentinels_left |-> 0, full_at_stop |-> FALSE]
    /\ enq = IdleEnqueue
    /\ redis = [client |-> FALSE, next_connect_attempt |-> 0, now |-> 0,
                list |-> <<>>]
    /\ jobs = [j \in JobIds |-> [state |-> "new", kind |-> None]]
    /\ callers = [c \in Procs |-> IdleCaller]
    /\ lock = [locked |-> FALSE, waiters |-> <<>>]
    /\ ws_registry = {}
    /\ probe_failed_at = [failed |-> FALSE, at |-> 0]
    /\ clock = 0
    /\ rate_limit_store = EmptyDict
    /\ auth_rate_limit_store = EmptyDict
    /\ passed = [global |-> EmptyDict, auth |-> EmptyDict]
    /\ last = NoExchange
    /\ env = NoEnvelope
    /\ alert_latch = <<>>
    /\ hook_run = NoHookRun
    /\ task_db = EmptyDict
    /\ handlers = EmptyDict
    /\ topic = EmptyDict
    /\ api = NoAnswer
    /\ session = Unopened
    /\ forex = NewForexService
    /\ stream = NewStream
    /\ stream_tasks = [t \in StreamTaskIds |-> Unborn]
    /\ ready = <<>>
    /\ risk = NoEvaluation
    /\ forecast = NoForecast
    /\ bg = NoSession
    /\ emitters = NoEmitters

\* ---- connect(websocket, task_id) as called by the two endpoints ----

\* connect, lines 50-69: accept() returns; the socket is entered into the
\* three indexes under a fresh uuid; the coroutine then awaits
\* redis_store.set_ws_connection.
Register(s, t) ==
    LET cid == uuid_counter + 1
    IN  /\ active_connections' =
               DictSet(active_connections, t,
                       (IF t \in DOMAIN active_connections
                        THEN active_connections[t] ELSE {}) \cup {s})
        /\ all_connections' = all_connections \cup {s}
        /\ uuid_counter' = cid
        /\ connection_registry' =
               DictSet(connection_registry, cid,
                       [task_id |-> t, last_seen |-> "connected_at"])
        /\ websocket_to_connection_id' = DictSet(websocket_to_connection_id, s, cid)
        /\ live' = live \cup {s}
        /\ UNCHANGED removals_scheduled

\* Sockets are numbered in the order their clients arrive.
NextToArrive(s) == ep[s].pc = "init" /\ \A r \in Sockets : r < s => ep[r].pc # "init"

ConnectAccept(s) ==
    /\ NextToArrive(s)
    /\ \E t \in Topics :
          /\ Register(s, t)
          /\ ep' = [ep EXCEPT ![s] = [pc |-> "set_ws", task_id |-> t]]
    /\ UNCHANGED <<snd, bc>>
    /\ UNCHANGED notws

\* websocket.accept() raises: connect propagates, nothing was registered.
ConnectAcceptFails(s) ==
    /\ NextToArrive(s)
    /\ ep' = [ep EXCEPT ![s].pc = "done"]
    /\ UNCHANGED <<active_connections, all_connections, connection_registry,
                   websocket_to_connection_id, uuid_counter, removals_scheduled,
                   snd, bc, live>>
    /\ UNCHANGED notws

\* connect, lines 70-81: set_ws_connection returned; send_update(websocket=ws)
\* builds the welcome frame and suspends in websocket.send_json.
ConnectWelcomeBegin(s) ==
    /\ ep[s].pc = "set_ws"
    /\ ep' = [ep EXCEPT ![s].pc = "welcome_write"]
    /\ UNCHANGED <<active_connections, all_connections, connection_registry,
                   websocket_to_connection_id, uuid_counter, removals_scheduled,
                   snd, bc, live>>
    /\ UNCHANGED notws

\* send_update, lines 179-182 and 192-195, single-websocket branch: the write
\* returns (mark_connection_alive) or raises (disconnect, reason send_failure).
SingleWriteEnd(s, ok) ==
    IF ok THEN MarkConnectionAlive(s)
    ELSE Disconnect(s, ep[s].task_id, "send_failure")

ConnectWelcomeEnd(s) ==
    /\ ep[s].pc = "welcome_write"
    /\ \E ok \in BOOLEAN : SingleWriteEnd(s, ok)
    /\ ep' = [ep EXCEPT ![s].pc = "receive"]
    /\ UNCHANGED <<uuid_counter, snd, bc>>
    /\ UNCHANGED notws

\* ---- the receive loops of websocket_endpoint / websocket_global ----

\* receive_text() returned "ping": the endpoint suspends in send_text("pong").
ReceivePing(s) ==
    /\ ep[s].pc = "receive"
    /\ ep' = [ep EXCEPT ![s].pc = "pong_write"]
    /\ UNCHANGED <<active_connections, all_connections, connection_registry,
                   websocket_to_connection_id, uuid_counter, removals_scheduled,
                   snd, bc, live>>
    /\ UNCHANGED notws

\* send_text("pong") returned, or raised into the endpoint's except clause.
PongEnd(s) ==
    /\ ep[s].pc = "pong_write"
    /\ \E ok \in BOOLEAN :
         IF ok
         THEN /\ ep' = [ep EXCEPT ![s].pc = "receive"]
              /\ UNCHANGED <<active_connections, all_connections,
                             connection_registry, websocket_to_connection_id,
                             removals_scheduled, live>>
         ELSE /\ Disconnect(s, ep[s].task_id, None)
              /\ ep' = [ep EXCEPT ![s] = [pc |-> "done", task_id |-> None]]
    /\ UNCHANGED <<uuid_counter, snd, bc>>
    /\ UNCHANGED notws

\* websocket_endpoint only: any other text is echoed through
\* send_update(websocket=websocket).
ReceiveText(s) ==
    /\ ep[s].pc = "receive"
    /\ EndpointKind(ep[s].task_id) = "task"
    /\ ep' = [ep EXCEPT ![s].pc = "echo_write"]
    /\ UNCHANGED <<active_connections, all_connections, connection_registry,
                   websocket_to_connection_id, uuid_counter, removals_scheduled,
                   snd, bc, live>>
    /\ UNCHANGED notws

EchoEnd(s) ==
    /\ ep[s].pc = "echo_write"
    /\ \E ok \in BOOLEAN : SingleWriteEnd(s, ok)
    /\ ep' = [ep EXCEPT ![s].pc = "receive"]
    /\ UNCHANGED <<uuid_counter, snd, bc>>
    /\ UNCHANGED notws

\* receive_text() raised WebSocketDisconnect (or another exception): the
\* endpoint calls disconnect(websocket, task_id) and ends.
ReceiveDisconnect(s) ==
    /\ ep[s].pc = "receive"
    /\ Disconnect(s, ep[s].task_id, None)
    /\ ep' = [ep EXCEPT ![s] = [pc |-> "done", task_id |-> None]]
    /\ UNCHANGED <<uuid_counter, snd, bc>>
    /\ UNCHANGED notws

\* ---- send_update(task_id=t) from a producer (task handler, /updates/send) ----

\* send_update, lines 183-188: snapshot list(active_connections[task_id]) and
\* suspend in the first send_json; a topic without subscribers returns at once.
SendUpdateBegin(t) ==
    /\ snd.pc = "idle"
    /\ IF t \in DOMAIN active_connections
       THEN \E order \in Orders(active_connections[t]) :
              snd' = [IdleSend EXCEPT
                        !.pc = "writing", !.task_id = t,
                        !.cur = Head(order), !.rest = Tail(order),
                        !.snapshot = active_connections[t],
                        !.attempts = [s \in Sockets |->
                                        IF s = Head(order) THEN 1 ELSE 0]]
       ELSE snd' = [IdleSend EXCEPT !.pc = "returned", !.task_id = t]
    /\ UNCHANGED <<active_connections, all_connections, connection_registry,
                   websocket_to_connection_id, uuid_counter, removals_scheduled,
                   ep, bc, live>>
    /\ UNCHANGED notws

\* send_update, lines 186-191, one iteration: the write to the current
\* connection returns or raises; the loop goes on to the next connection of
\* the snapshot or the call returns.
\* A loop that drops the connection after every write, failed or not.
TopicWriteEnd_AlwaysDrop(c, t, ok) == Disconnect(c, t, "send_failure")

TopicWriteEnd(c, t, ok) ==
    IF ok THEN MarkConnectionAlive(c)
    ELSE Disconnect(c, t, "send_failure")

SendUpdateStep ==
    /\ snd.pc = "writing"
    /\ \E ok \in BOOLEAN :
         /\ TopicWriteEnd(snd.cur, snd.task_id, ok)
         /\ LET done == [snd EXCEPT
                            !.ok = IF ok THEN @ \cup {snd.cur} ELSE @,
                            !.failed = IF ok THEN @ ELSE @ \cup {snd.cur}]
            IN  IF snd.rest = <<>>
                THEN snd' = [done EXCEPT !.pc = "returned", !.cur = 0]
                ELSE snd' = [done EXCEPT
                               !.cur = Head(snd.rest), !.rest = Tail(snd.rest),
                               !.attempts[Head(snd.rest)] = @ + 1]
    /\ UNCHANGED <<uuid_counter, ep, bc>>
    /\ UNCHANGED notws

\* The caller resumes after send_update returned.
SendUpdateReturn ==
    /\ snd.pc = "returned"
    /\ snd' = IdleSend
    /\ UNCHANGED <<active_connections, all_connections, connection_registry,
                   websocket_to_connection_id, uuid_counter, removals_scheduled,
                   ep, bc, live>>
    /\ UNCHANGED notws

\* ---- broadcast(...) from the forex stream ----

\* broadcast, lines 263-266: snapshot list(all_connections), first send_json.
BroadcastBegin ==
    /\ bc.pc = "idle"
    /\ all_connections # {}
    /\ \E order \in Orders(all_connections) :
         bc' = [pc |-> "writing", cur |-> Head(order), rest |-> Tail(order)]
    /\ UNCHANGED <<active_connections, all_connections, connection_registry,
                   websocket_to_connection_id, uuid_counter, removals_scheduled,
                   ep, snd, live>>
    /\ UNCHANGED notws

\* broadcast, lines 264-269, one iteration.
BroadcastWriteEnd(c, ok) ==
    IF ok THEN MarkConnectionAlive(c)
    ELSE Disconnect(c, None, "broadcast_send_failure")

BroadcastStep ==
    /\ bc.pc = "writing"
    /\ \E ok \in BOOLEAN : BroadcastWriteEnd(bc.cur, ok)
    /\ bc' = IF bc.rest = <<>> THEN IdleBroadcast
             ELSE [bc EXCEPT !.cur = Head(bc.rest), !.rest = Tail(bc.rest)]
    /\ UNCHANGED <<uuid_counter, ep, snd>>
    /\ UNCHANGED notws

NextWS ==
    \/ \E s \in Sockets : ConnectAccept(s)
    \/ \E s \in Sockets : ConnectAcceptFails(s)
    \/ \E s \in Sockets : ConnectWelcomeBegin(s)
    \/ \E s \in Sockets : ConnectWelcomeEnd(s)
    \/ \E s \in Sockets : ReceivePing(s)
    \/ \E s \in Sockets : PongEnd(s)
    \/ \E s \in Sockets : ReceiveText(s)
    \/ \E s \in Sockets : EchoEnd(s)
    \/ \E s \in Sockets : ReceiveDisconnect(s)
    \/ \E t \in Topics : SendUpdateBegin(t)
    \/ SendUpdateStep
    \/ SendUpdateReturn
    \/ BroadcastBegin
    \/ BroadcastStep

(***************************************************************************)
(* Part II, actions.                                                       *)
(***************************************************************************)

\* ---- RedisStore ----

\* ensure_connected() up to the probe: "yes" with a cached client, "no" when
\* disabled (is_enabled() reads TASK_QUEUE_BACKEND) or inside the cooldown,
\* "probe" when a connection is attempted.
EnsureConnectedPath(requested) ==
    IF redis.client THEN "yes"
    ELSE IF requested # "redis" THEN "no"
    ELSE IF redis.now < redis.next_connect_attempt THEN "no"
    ELSE "probe"

\* ensure_connected(), lines 84-107: the probe's ping() returned or raised.
ProbeResult(ok) ==
    IF ok THEN [redis EXCEPT !.client = TRUE, !.next_connect_attempt = 0]
    ELSE [redis EXCEPT !.next_connect_attempt = redis.now + RetrySeconds]

\* time.monotonic() advances; only a pending cooldown reads it.
Tick ==
    /\ redis.now < redis.next_connect_attempt
    /\ redis.now < MaxTime
    /\ redis' = [redis EXCEPT !.now = @ + 1]
    /\ UNCHANGED <<tq, workers, ctl, enq, jobs>>
    /\ UNCHANGED notq

\* ---- start(workers, max_size) ----

\* A start() that creates no FIFO.
HasFifo_Never(backend_active) == FALSE

\* start, lines 84-88: the FIFO exists in memory mode only.
HasFifo(backend_active) == backend_active = "memory"

\* start, lines 82-93: sizes, the FIFO (memory only), one task per worker,
\* started = True.  q is the service as the earlier lines of start left it.
StartFinish(q, workers_arg, max_size_arg) ==
    /\ tq' = [q EXCEPT
                !.worker_count = Max(1, workers_arg),
                !.max_size = Max(1, max_size_arg),
                !.has_queue = HasFifo(q.backend_active),
                !.queue = <<>>,
                !.started = TRUE]
    /\ workers' = [w \in WorkerIds |->
                     IF w <= Max(1, workers_arg)
                     THEN [pc |-> "created", loop |-> None, item |-> Sentinel]
                     ELSE NoWorker]

\* start, lines 60-80: the backend is read from the environment; with "redis"
\* requested ensure_connected() answers at once (cached client, cooldown) or
\* the coroutine suspends in the probe.
StartBegin ==
    /\ ctl.pc \in {"idle", "stopped"}
    /\ ~tq.started
    /\ \E requested \in {"memory", "redis"}, wa \in 0..MaxWorkers, ma \in 0..MaxQueueSize :
         LET path == IF requested = "redis" THEN EnsureConnectedPath(requested) ELSE "no"
             q == [tq EXCEPT !.backend_requested = requested,
                             !.backend_active = IF path = "yes" THEN "redis" ELSE "memory"]
         IN  /\ ctl' = IF path = "no" THEN [ctl EXCEPT !.pc = "running", !.full_at_stop = FALSE]
                        ELSE [ctl EXCEPT !.workers_arg = wa, !.max_size_arg = ma,
                                         !.full_at_stop = FALSE,
                                         !.pc = IF path = "yes" THEN "start_len"
                                                ELSE "start_probe"]
             /\ IF path = "no" THEN StartFinish(q, wa, ma)
                ELSE tq' = q /\ UNCHANGED workers
    /\ UNCHANGED <<enq, jobs, redis>>
    /\ UNCHANGED notq

\* start, lines 74-80: the probe inside ensure_connected() came back.  On
\* success the coroutine goes on to await get_queue_length(); on failure the
\* cooldown starts and start() falls back to memory.
StartProbeEnd ==
    /\ ctl.pc = "start_probe"
    /\ \E ok \in BOOLEAN :
         /\ redis' = ProbeResult(ok)
         /\ IF ok
            THEN /\ ctl' = [ctl EXCEPT !.pc = "start_len"]
                 /\ tq' = [tq EXCEPT !.backend_active = "redis"]
                 /\ UNCHANGED workers
            ELSE /\ ctl' = [ctl EXCEPT !.pc = "running", !.workers_arg = 0,
                                        !.max_size_arg = 0]
                 /\ StartFinish(tq, ctl.workers_arg, ctl.max_size_arg)
    /\ UNCHANGED <<enq, jobs>>
    /\ UNCHANGED notq

\* get_queue_length(): LLEN of the shared list, or 0 when the call raises.
QueueLengthResult(ok) == IF ok THEN Len(redis.list) ELSE 0

\* start, lines 76-93 in redis mode: the length came back; workers start.
StartLenEnd ==
    /\ ctl.pc = "start_len"
    /\ \E ok \in BOOLEAN :
         StartFinish([tq EXCEPT !.redis_queue_size_estimate = QueueLengthResult(ok)],
                     ctl.workers_arg, ctl.max_size_arg)
    /\ ctl' = [ctl EXCEPT !.pc = "running", !.workers_arg = 0, !.max_size_arg = 0]
    /\ UNCHANGED <<enq, jobs, redis>>
    /\ UNCHANGED notq

\* ---- stop() ----

\* A stop() that puts no sentinel on the FIFO.
PutSentinels_None(queue, n, max_size) == [queue |-> queue, left |-> 0]

\* asyncio.Queue.put(None) repeated: sentinels go on the FIFO until it is
\* full or n of them are on; the result is the FIFO and the number left.
PutSentinels(queue, n, max_size) ==
    LET k == Min(n, Max(0, max_size - Len(queue)))
    IN  [queue |-> queue \o [i \in 1..k |-> Sentinel], left |-> n - k]

\* Workers whose task has finished (gather has their result).
WorkerDone(w) == workers[w].pc \in {"none", "exited", "cancelled"}

\* stop, lines 100-107: started = False; in memory mode one sentinel per
\* worker, suspending in put() while the FIFO is full; then gather.
StopBegin ==
    /\ ctl.pc = "running"
    /\ tq.started
    /\ IF tq.backend_active = "memory" /\ tq.has_queue
       THEN LET r == PutSentinels(tq.queue, tq.worker_count, tq.max_size)
            IN  /\ tq' = [tq EXCEPT !.started = FALSE, !.queue = r.queue]
                /\ ctl' = [ctl EXCEPT
                             !.pc = IF r.left = 0 THEN "stop_gather" ELSE "stop_put",
                             !.sentinels_left = r.left,
                             !.full_at_stop = (Len(tq.queue) >= tq.max_size)]
       ELSE /\ tq' = [tq EXCEPT !.started = FALSE]
            /\ ctl' = [ctl EXCEPT !.pc = "stop_gather"]
    /\ UNCHANGED <<workers, enq, jobs, redis>>
    /\ UNCHANGED notq

\* stop, line 105: a worker made room; the suspended put() goes through and
\* the loop puts the remaining sentinels that fit.
StopPutResume ==
    /\ ctl.pc = "stop_put"
    /\ Len(tq.queue) < tq.max_size
    /\ LET r == PutSentinels(tq.queue, ctl.sentinels_left, tq.max_size)
       IN  /\ tq' = [tq EXCEPT !.queue = r.queue]
           /\ ctl' = [ctl EXCEPT
                        !.pc = IF r.left = 0 THEN "stop_gather" ELSE "stop_put",
                        !.sentinels_left = r.left]
    /\ UNCHANGED <<workers, enq, jobs, redis>>
    /\ UNCHANGED notq

\* stop, lines 107-114: every worker task is done; the list of workers and
\* the FIFO reference are cleared.  In redis mode the coroutine awaits
\* get_queue_length() once more.
StopGathered ==
    /\ ctl.pc = "stop_gather"
    /\ \A w \in WorkerIds : WorkerDone(w)
    /\ tq' = [tq EXCEPT !.has_queue = FALSE, !.queue = <<>>]
    /\ workers' = [w \in WorkerIds |-> NoWorker]
    /\ ctl' = [ctl EXCEPT !.pc = IF tq.backend_active = "redis"
                                 THEN "stop_len" ELSE "stopped"]
    /\ UNCHANGED <<enq, jobs, redis>>
    /\ UNCHANGED notq

StopLenEnd ==
    /\ ctl.pc = "stop_len"
    /\ \E ok \in BOOLEAN :
         tq' = [tq EXCEPT !.redis_queue_size_estimate =
                             IF redis.client THEN QueueLengthResult(ok) ELSE 0]
    /\ ctl' = [ctl EXCEPT !.pc = "stopped"]
    /\ UNCHANGED <<workers, enq, jobs, redis>>
    /\ UNCHANGED notq


\* ---- enqueue(task_key, coroutine, *args) ----

\* The next job the producer submits: jobs are numbered in order of submission.
NextJob(j) == jobs[j].state = "new" /\ \A i \in JobIds : i < j => jobs[i].state # "new"

\* A put_nowait that never reports a full FIFO.
PutNowait_Unbounded(queue, item, max_size) == [full |-> FALSE, queue |-> Append(queue, item)]

\* asyncio.Queue.put_nowait: QueueFull when qsize() >= maxsize.
PutNowait(queue, item, max_size) ==
    IF Len(queue) >= max_size THEN [full |-> TRUE, queue |-> queue]
    ELSE [full |-> FALSE, queue |-> Append(queue, item)]

\* A lookup that finds a name for every callable.
ResolveHandlerName_AnyCallable(registered) == "name"

\* _resolve_handler_name: the name the callable is registered under, or None.
ResolveHandlerName(registered) == IF registered THEN "name" ELSE "none"

\* enqueue, the whole call when it returns without suspending: not started;
\* redis mode with an unregistered callable or unserializable arguments;
\* memory mode (put_nowait onto the FIFO).  In redis mode with an acceptable
\* job the coroutine suspends in push_queue_item.
Enqueue(j) ==
    /\ enq.pc = "idle"
    /\ NextJob(j)
    /\ \E kind \in JobKinds, registered \in BOOLEAN, serializable \in BOOLEAN :
         LET handler_name == ResolveHandlerName(registered)
             call == [pc |-> "idle", job |-> 0, registered |-> registered,
                      handler_name |-> "unset", ret |-> "False"]
             shared == [call EXCEPT !.handler_name = handler_name]
             returns(c) == /\ enq' = c
                           /\ jobs' = [jobs EXCEPT ![j] = [state |-> "rejected", kind |-> None]]
                           /\ UNCHANGED <<tq, redis>>
             rejected == returns(call)
         IN  IF ~tq.started THEN rejected
             ELSE IF tq.backend_active = "redis"
             THEN IF handler_name = "none" \/ ~serializable THEN returns(shared)
                  ELSE IF EnsureConnectedPath("redis") # "yes" THEN returns(shared)
                  ELSE /\ enq' = [shared EXCEPT !.pc = "pushing", !.job = j, !.ret = None]
                       /\ jobs' = [jobs EXCEPT ![j] = [state |-> "pushing", kind |-> kind]]
                       /\ UNCHANGED <<tq, redis>>
             ELSE IF ~tq.has_queue THEN rejected
             ELSE LET r == PutNowait(tq.queue, j, tq.max_size)
                  IN  IF r.full THEN rejected
                      ELSE /\ enq' = [call EXCEPT !.ret = "True"]
                           /\ tq' = [tq EXCEPT !.queue = r.queue, !.enqueued = @ + 1]
                           /\ jobs' = [jobs EXCEPT ![j] = [state |-> "queued", kind |-> kind]]
                           /\ UNCHANGED redis
    /\ UNCHANGED <<workers, ctl>>
    /\ UNCHANGED notq

\* enqueue, lines 150-155: rpush returned (the item is on the shared list,
\* enqueued and the estimate go up) or raised (push_queue_item returns False).
EnqueuePushEnd ==
    /\ enq.pc = "pushing"
    /\ \E ok \in BOOLEAN :
         IF ok
         THEN /\ redis' = [redis EXCEPT !.list = Append(@, enq.job)]
              /\ tq' = [tq EXCEPT !.enqueued = @ + 1,
                                  !.redis_queue_size_estimate = @ + 1]
              /\ jobs' = [jobs EXCEPT ![enq.job].state = "queued"]
              /\ enq' = [enq EXCEPT !.pc = "idle", !.job = 0, !.ret = "True"]
         ELSE /\ jobs' = [jobs EXCEPT ![enq.job] = [state |-> "rejected", kind |-> None]]
              /\ enq' = [enq EXCEPT !.pc = "idle", !.job = 0, !.ret = "False"]
              /\ UNCHANGED <<tq, redis>>
    /\ UNCHANGED <<workers, ctl>>
    /\ UNCHANGED notq

\* ---- _worker_loop(index) ----

\* _worker_loop / the head of either loop, at the task's first step: the
\* memory loop returns when there is no FIFO, the redis loop tests started.
WorkerStart(w) ==
    /\ workers[w].pc = "created"
    /\ workers' = [workers EXCEPT ![w] =
          IF tq.backend_active = "redis"
          THEN [pc |-> IF tq.started THEN "pop" ELSE "exited",
                loop |-> "redis", item |-> Sentinel]
          ELSE [pc |-> IF tq.has_queue THEN "get" ELSE "exited",
                loop |-> "memory", item |-> Sentinel]]
    /\ UNCHANGED <<tq, ctl, enq, redis, jobs>>
    /\ UNCHANGED notq

\* _memory_worker_loop, lines 205-208: get() hands over the head of the FIFO;
\* a sentinel ends the worker, a job is invoked.
MemoryGet(w) ==
    /\ workers[w].pc = "get"
    /\ tq.has_queue
    /\ tq.queue # <<>>
    /\ LET item == Head(tq.queue)
       IN  /\ tq' = [tq EXCEPT !.queue = Tail(@)]
           /\ IF item = Sentinel
              THEN /\ workers' = [workers EXCEPT ![w].pc = "exited"]
                   /\ UNCHANGED jobs
              ELSE /\ workers' = [workers EXCEPT ![w].pc = "run", ![w].item = item]
                   /\ jobs' = [jobs EXCEPT ![item].state = "running"]
    /\ UNCHANGED <<ctl, enq, redis>>
    /\ UNCHANGED notq

\* A worker without the except clause: a raising job ends the worker task.
AfterJob_Uncaught(w, raised) == IF raised THEN "exited" ELSE "get"

\* Where a worker goes after a job returned or raised: the memory loop waits
\* on get() again; the redis loop tests started first.
AfterJob(w, raised) ==
    IF workers[w].loop = "memory" THEN "get"
    ELSE IF tq.started THEN "pop" ELSE "exited"

\* lines 209-212 and 247-251: completed += 1 on return, failed += 1 on raise.
CountJob(q, raised) ==
    IF raised THEN [q EXCEPT !.failed = @ + 1] ELSE [q EXCEPT !.completed = @ + 1]

\* The awaited job coroutine returned or raised an Exception.
JobEnd(w) ==
    /\ workers[w].pc = "run"
    /\ LET j == workers[w].item
           raised == jobs[j].kind = "raises"
       IN  /\ tq' = CountJob(tq, raised)
           /\ jobs' = [jobs EXCEPT ![j].state = IF raised THEN "failed" ELSE "completed"]
           /\ workers' = [workers EXCEPT ![w].pc = AfterJob(w, raised),
                                         ![w].item = Sentinel]
    /\ UNCHANGED <<ctl, enq, redis>>
    /\ UNCHANGED notq

\* _redis_worker_loop, lines 220-245: pop_queue_item came back.  With a
\* connected client BLPOP takes the head of the shared list, or times out on
\* an empty list, or raises; without a job the worker awaits sleep(0).
RedisPop(w) ==
    /\ workers[w].pc = "pop"
    /\ \E ok \in BOOLEAN :
         IF ok /\ redis.client /\ redis.list # <<>>
         THEN LET j == Head(redis.list)
              IN  /\ redis' = [redis EXCEPT !.list = Tail(@)]
                  /\ tq' = [tq EXCEPT !.redis_queue_size_estimate = Max(0, @ - 1)]
                  /\ workers' = [workers EXCEPT ![w].pc = "run", ![w].item = j]
                  /\ jobs' = [jobs EXCEPT ![j].state = "running"]
         ELSE /\ workers' = [workers EXCEPT ![w].pc = "sleep0"]
              /\ UNCHANGED <<tq, redis, jobs>>
    /\ UNCHANGED <<ctl, enq>>
    /\ UNCHANGED notq

\* _redis_worker_loop, lines 219 and 225-226: sleep(0) returned; the loop
\* tests started.
RedisSleepEnd(w) ==
    /\ workers[w].pc = "sleep0"
    /\ workers' = [workers EXCEPT ![w].pc = IF tq.started THEN "pop" ELSE "exited"]
    /\ UNCHANGED <<tq, ctl, enq, redis, jobs>>
    /\ UNCHANGED notq

\* The worker task is cancelled at the await it is suspended in: CancelledError
\* is not an Exception, so nothing is counted and nothing is put back.
WorkerCancelled(w) ==
    /\ workers[w].pc \in {"get", "run", "pop", "sleep0"}
    /\ workers' = [workers EXCEPT ![w].pc = "cancelled", ![w].item = Sentinel]
    /\ UNCHANGED <<tq, ctl, enq, redis, jobs>>
    /\ UNCHANGED notq

NextQ ==
    \/ Tick
    \/ StartBegin
    \/ StartProbeEnd
    \/ StartLenEnd
    \/ StopBegin
    \/ StopPutResume
    \/ StopGathered
    \/ StopLenEnd
    \/ \E j \in JobIds : Enqueue(j)
    \/ EnqueuePushEnd
    \/ \E w \in WorkerIds : WorkerStart(w)
    \/ \E w \in WorkerIds : MemoryGet(w)
    \/ \E w \in WorkerIds : JobEnd(w)
    \/ \E w \in WorkerIds : RedisPop(w)
    \/ \E w \in WorkerIds : RedisSleepEnd(w)


(***************************************************************************)
(* Part III, actions.                                                      *)
(***************************************************************************)

\* The call returns to its caller with a result; cause records the branch.
Returned(op, result, cause) ==
    [pc |-> "returned", op |-> op, arg |-> 0, result |-> result, cause |-> cause]

\* ensure_connected() answered True: ensure_connected itself returns, a store
\* operation goes on to its redis call and suspends in it.
Connected(op, arg, cause) ==
    IF op = "ensure_connected" THEN Returned(op, "True", cause)
    ELSE [pc |-> "calling", op |-> op, arg |-> arg, result |-> None, cause |-> cause]

\* An ensure_connected() that probes again without looking at the state the
\* lock holder left.
UnderLockPath_Unchecked == "probe"

\* ensure_connected(), lines 71-77: under the lock the client and the
\* cooldown are checked again.
UnderLockPath ==
    IF redis.client THEN "yes"
    ELSE IF redis.now < redis.next_connect_attempt THEN "no"
    ELSE "probe"

\* asyncio.Lock.acquire() returns at once when the lock is free and nobody
\* is waiting for it.
LockFree == ~lock.locked /\ lock.waiters = <<>>

\* A coroutine calls ensure_connected(), directly or at the head of a store
\* operation (lines 56-71).  is_enabled() reads the environment.
StoreCall(c) ==
    /\ callers[c].pc \in {"idle", "returned"}
    /\ \E op \in OpsOf(c), arg \in ConnectionIds, enabled \in BOOLEAN :
         LET path == EnsureConnectedPath(IF enabled THEN "redis" ELSE "memory")
             a == IF op \in RegistryOps \ {"get_ws_registry"} THEN arg ELSE 0
         IN  /\ op = "push_queue_item" => Len(redis.list) < MaxJobs
             /\ CASE path = "yes" ->
                       /\ callers' = [callers EXCEPT ![c] = Connected(op, a, "cached")]
                       /\ UNCHANGED lock
                  [] path = "no" ->
                       /\ callers' = [callers EXCEPT ![c] =
                             Returned(op, SentinelOf(op),
                                      IF enabled THEN "cooldown" ELSE "disabled")]
                       /\ UNCHANGED lock
                  [] OTHER ->
                       IF LockFree /\ UnderLockPath = "probe"
                       THEN /\ callers' = [callers EXCEPT ![c] =
                                 [pc |-> "probing", op |-> op, arg |-> a,
                                  result |-> None, cause |-> None]]
                            /\ lock' = [lock EXCEPT !.locked = TRUE]
                       ELSE /\ callers' = [callers EXCEPT ![c] =
                                 [pc |-> "wait_lock", op |-> op, arg |-> a,
                                  result |-> None, cause |-> None]]
                            /\ lock' = [lock EXCEPT !.waiters = Append(@, c)]
    /\ UNCHANGED <<redis, ws_registry, probe_failed_at>>
    /\ UNCHANGED notstore

\* The first waiter gets the lock (lines 71-77) and checks again: a client
\* connected meanwhile, a cooldown started meanwhile, or it probes itself.
LockAcquired(c) ==
    /\ callers[c].pc = "wait_lock"
    /\ ~lock.locked
    /\ lock.waiters # <<>>
    /\ Head(lock.waiters) = c
    /\ LET op == callers[c].op
           arg == callers[c].arg
           path == UnderLockPath
       IN  CASE path = "yes" ->
                  /\ callers' = [callers EXCEPT ![c] = Connected(op, arg, "cached")]
                  /\ lock' = [lock EXCEPT !.waiters = Tail(@)]
             [] path = "no" ->
                  /\ callers' = [callers EXCEPT ![c] =
                        Returned(op, SentinelOf(op), "cooldown")]
                  /\ lock' = [lock EXCEPT !.waiters = Tail(@)]
             [] OTHER ->
                  /\ callers' = [callers EXCEPT ![c].pc = "probing"]
                  /\ lock' = [locked |-> TRUE, waiters |-> Tail(lock.waiters)]
    /\ UNCHANGED <<redis, ws_registry, probe_failed_at>>
    /\ UNCHANGED notstore

\* ensure_connected(), lines 84-107: ping() returned or raised; the lock is
\* released on the way out.
ProbeEnd(c) ==
    /\ callers[c].pc = "probing"
    /\ \E ok \in BOOLEAN :
         /\ redis' = ProbeResult(ok)
         /\ probe_failed_at' = IF ok THEN probe_failed_at
                               ELSE [failed |-> TRUE, at |-> redis.now]
         /\ callers' = [callers EXCEPT ![c] =
               IF ok THEN Connected(callers[c].op, callers[c].arg, "connected")
               ELSE Returned(callers[c].op, SentinelOf(callers[c].op), "probe_failed")]
    /\ lock' = [lock EXCEPT !.locked = FALSE]
    /\ UNCHANGED ws_registry
    /\ UNCHANGED notstore

\* What the redis call gives when it succeeds.
ValueOf(op) ==
    CASE op \in {"push_queue_item", "set_ws_connection", "patch_ws_connection",
                 "remove_ws_connection"} -> "True"
      [] op = "pop_queue_item" -> IF redis.list = <<>> THEN "None" ELSE "item"
      [] op = "get_queue_length" -> IF redis.list = <<>> THEN "0" ELSE "length"
      [] OTHER -> IF ws_registry = {} THEN "{}" ELSE "entries"

\* An operation whose redis call is not wrapped in try / except.
OpOutcome_Uncaught(op, ok) == IF ok THEN ValueOf(op) ELSE "raised"

\* The try / except Exception around the redis call of every operation.
OpOutcome(op, ok) == IF ok THEN ValueOf(op) ELSE SentinelOf(op)

\* The redis call of a store operation returned or raised (connection lost,
\* socket timeout).  Neither the cached client nor the cooldown is touched.
CallEnd(c) ==
    /\ callers[c].pc = "calling"
    /\ \E ok \in BOOLEAN :
         LET op == callers[c].op
             cid == callers[c].arg
         IN  /\ callers' = [callers EXCEPT ![c] =
                   Returned(op, OpOutcome(op, ok),
                            IF ok THEN "call_ok" ELSE "call_failed")]
             /\ redis' = IF ~ok THEN redis
                         ELSE IF op = "push_queue_item"
                              THEN [redis EXCEPT !.list = Append(@, 1)]
                         ELSE IF op = "pop_queue_item" /\ redis.list # <<>>
                              THEN [redis EXCEPT !.list = Tail(@)]
                         ELSE redis
             /\ ws_registry' =
                   IF ~ok THEN ws_registry
                   ELSE IF op \in {"set_ws_connection", "patch_ws_connection"}
                        THEN ws_registry \cup {cid}
                   ELSE IF op = "remove_ws_connection" THEN ws_registry \ {cid}
                   ELSE ws_registry
    /\ UNCHANGED <<lock, probe_failed_at>>
    /\ UNCHANGED notstore

\* close(): the client reference is dropped.
StoreClose ==
    /\ redis.client
    /\ redis' = [redis EXCEPT !.client = FALSE]
    /\ UNCHANGED <<callers, lock, ws_registry, probe_failed_at>>
    /\ UNCHANGED notstore

NextStore ==
    \/ Tick
    \/ StoreClose
    \/ \E c \in Procs : StoreCall(c)
    \/ \E c \in Procs : LockAcquired(c)
    \/ \E c \in Procs : ProbeEnd(c)
    \/ \E c \in Procs : CallEnd(c)

(***************************************************************************)
(* Part IV, actions.                                                       *)
(***************************************************************************)

\* One request goes down the chain and its response comes back up.
\* buffered is whether the response call_next hands to the envelope
\* middleware has a body attribute.
HttpRequest(req, answer, buffered) ==
    \E r \in {Dispatch(MiddlewareStack, req, answer, buffered, StartOfRequest)} :
        /\ rate_limit_store' = r.ctx.store
        /\ auth_rate_limit_store' = r.ctx.auth_store
        /\ passed' = r.ctx.allowed
        /\ last' = [served |-> TRUE, req |-> req, response |-> r.response,
                    trace |-> r.ctx.trace, buffered |-> buffered]
        /\ UNCHANGED <<clock, env>>
        /\ UNCHANGED nothttp

\* time.time() advances.
ClockTick ==
    /\ clock < MaxClock
    /\ clock' = clock + 1
    /\ UNCHANGED <<rate_limit_store, auth_rate_limit_store, passed, last, env>>
    /\ UNCHANGED nothttp

\* The requests of one client with every header, token and body variant.
HttpRequests == {r \in Requests : r.host = "10.0.0.1"
                                    /\ r.path \in {"/api/forex/rates", "/auth/login", "/health"}}

\* The response has a body attribute only if it is the JSON answer of a route.
NextHttp ==
    \E req \in HttpRequests, answer \in Answers, buffered \in BOOLEAN :
        /\ buffered => answer = Ok
        /\ HttpRequest(req, answer, buffered)

\* The requests of several clients that differ in what the limiters read.
LimiterRequests ==
    {r \in Requests : /\ r.method = "GET"
                      /\ r.path \in {"/api/forex/rates", "/auth/login", "/health"}
                      /\ r.host = "10.0.0.2" => r.path = "/api/forex/rates"
                      /\ r.x_request_id = None
                      /\ r.token = "valid"}

NextLimiter ==
    \/ ClockTick
    \/ \E req \in LimiterRequests : HttpRequest(req, Ok, FALSE)

\* The JSON bodies a route may answer with: null, a list, a number, plain
\* objects with and without a message, and objects of the envelope shape.
EnvelopeBodies ==
    {JNull, JList, JNum,
     JDict([x |-> JNum]),
     JDict([message |-> JStr(" hi "), x |-> JNum]),
     JDict([message |-> JStr("  ")]),
     JDict([message |-> JNum]),
     JDict([status |-> JStr("success"), message |-> JStr("hi")]),
     JDict([status |-> JStr("success"), message |-> JStr("hi"), data |-> JDict([x |-> JNum])]),
     JDict([status |-> JStr("success"), message |-> JStr("hi"), data |-> JNull]),
     JDict([status |-> JStr("success"), message |-> JStr("hi"), data |-> JDict([x |-> JNum]),
            requestId |-> JStr("other-id")]),
     NotJson}

\* The responses call_next may hand to the envelope middleware.
EnvelopeResponses ==
    [status_code : {200, 404}, content_type : {"application/json", "text/plain"},
     body : EnvelopeBodies, has_body : BOOLEAN, headers : {{"X-Trace-ID"}},
     x_request_id : {Minted}]

\* The requests whose responses it is handed.  request_id_middleware has
\* run before call_next returns, so request.state.request_id is set: to the
\* inbound id, or to a minted one.
EnvelopeRequests ==
    {r \in Requests : /\ r.host = "10.0.0.1" /\ r.token = "valid"
                      /\ r.content_length = "absent"
                      /\ r.x_request_id \in {None, "client-id"}
                      /\ r.path \in {"/api/forex/rates", "/api/ws/status", "/health"}}

\* api_response_envelope_middleware on its own: it is applied to a response
\* and then to the response it returned.
EnvelopeApply ==
    \E req \in EnvelopeRequests, response \in EnvelopeResponses :
        \E state_request_id \in {IF InboundId(req) # "" THEN InboundId(req) ELSE Minted} :
        \E once \in {ApiResponseEnvelope(req, state_request_id, response)} :
            /\ env' = [stage |-> "applied", req |-> req,
                       state_request_id |-> state_request_id, response |-> response,
                       once |-> once,
                       twice |-> ApiResponseEnvelope(req, state_request_id, once)]
            /\ UNCHANGED <<clock, rate_limit_store, auth_rate_limit_store, passed, last>>
            /\ UNCHANGED nothttp

NextEnvelope == EnvelopeApply

(***************************************************************************)
(* Part V, actions.                                                        *)
(***************************************************************************)

\* ops_alerts / ops_status, lines 349-383: one evaluation from the snapshot to
\* the end of _emit_alert_hooks, with no other evaluation in between.
OpsAlerts(enabled, snapshot, settings) ==
    \E alerts \in {build_alerts(snapshot)} :
      \E r \in {emit_alert_hooks(enabled, alerts, settings, alert_latch)} :
        /\ alert_latch' = r.latch
        /\ hook_run' = [ran |-> TRUE, enabled |-> enabled,
                        settings |-> settings,
                        before |-> alert_latch, alerts |-> alerts,
                        calls |-> r.calls, posts |-> r.posts]
        /\ UNCHANGED notops

NextOps ==
    \E enabled \in BOOLEAN, snapshot \in Snapshots, settings \in WebhookSettings :
        OpsAlerts(enabled, snapshot, settings)

(***************************************************************************)
(* Part VI, actions.                                                       *)
(***************************************************************************)

\* uuid4(): the next unused task id.
NextTaskId == Cardinality(DOMAIN task_db) + 1

\* create_task, lines 641-745: the record is persisted whatever the task
\* type, the handler of a known type is added to the background tasks, and
\* the normalized record is the answer.
CreateTask(params) ==
    /\ NextTaskId \in TaskIds
    /\ task_db' = DictSet(task_db, NextTaskId, task_data(params.task_type))
    /\ handlers' = IF params.task_type \in TaskTypes
                   THEN DictSet(handlers, NextTaskId, NewHandler(params))
                   ELSE handlers
    /\ topic' = DictSet(topic, NextTaskId, <<>>)
    /\ api' = [answered |-> TRUE, status_code |-> 200, id |-> NextTaskId,
               task_type |-> params.task_type]
    /\ UNCHANGED nottasks

\* main.py, create_task, lines 279-319: the record enters tasks_db and
\* process_forex_analysis_task is added to the background tasks.
CreateLegacyTask ==
    /\ NextTaskId \in TaskIds
    /\ task_db' = DictSet(task_db, NextTaskId, legacy_task)
    /\ handlers' = DictSet(handlers, NextTaskId, NewHandler(legacy_params))
    /\ topic' = DictSet(topic, NextTaskId, <<>>)
    /\ api' = [answered |-> TRUE, status_code |-> 200, id |-> NextTaskId,
               task_type |-> "forex_analysis"]
    /\ UNCHANGED nottasks

\* A handler of app/ai_task_routes.py that is inside its try block.
InTry(t) ==
    /\ t \in DOMAIN handlers
    /\ handlers[t].params.task_type \in TaskTypes
    /\ handlers[t].at = "running"

Instr(t) == Script(handlers[t].params)[handlers[t].pc]

Advance(t) == [handlers EXCEPT ![t].pc = @ + 1]

\* await _update_task(task_id, status="running", startTime=_now()).
HandlerStatus(t) ==
    /\ InTry(t)
    /\ Instr(t).op = "status"
    /\ task_db' = update_task(task_db, t, [status |-> Instr(t).arg])
    /\ handlers' = Advance(t)
    /\ UNCHANGED <<topic, api>>
    /\ UNCHANGED nottasks

\* The frame one send instruction puts on the topic.
FrameOf(instr) ==
    CASE instr.op = "progress" -> Frame("progress", instr.arg, instr.progress, None)
      [] instr.op = "info" -> Frame("info", None, NoProgress, None)
      [] instr.op = "success" -> Frame("success", None, NoProgress, None)
      [] instr.op = "complete" -> Frame("success", None, instr.progress, instr.arg)

\* await ws_manager.send_task_progress / send_update / send_task_complete:
\* send_update swallows every write failure, so the handler goes on.
HandlerEmit(t) ==
    /\ InTry(t)
    /\ Instr(t).op \in {"progress", "info", "success", "complete"}
    /\ topic' = [topic EXCEPT ![t] = Append(@, FrameOf(Instr(t)))]
    /\ handlers' = Advance(t)
    /\ UNCHANGED <<task_db, api>>
    /\ UNCHANGED nottasks

\* Awaits on ai_engine: they return or raise.
HandlerEngine(t) ==
    /\ InTry(t)
    /\ Instr(t).op = "engine"
    /\ \E raised \in BOOLEAN :
         handlers' = IF raised
                     THEN [handlers EXCEPT ![t].at = "catch", ![t].caught = TRUE]
                     ELSE Advance(t)
    /\ UNCHANGED <<task_db, topic, api>>
    /\ UNCHANGED nottasks

\* raise ValueError("Trading limits required for auto-trading"), line 403.
HandlerRaise(t) ==
    /\ InTry(t)
    /\ Instr(t).op = "raise"
    /\ handlers' = [handlers EXCEPT ![t].at = "catch", ![t].caught = TRUE]
    /\ UNCHANGED <<task_db, topic, api>>
    /\ UNCHANGED nottasks

\* _complete_step, lines 130-134: service.get_task hands back the record.
CompleteStepRead(t) ==
    /\ InTry(t)
    /\ Instr(t).op = "step"
    /\ handlers' = [handlers EXCEPT ![t].at = "step_write",
                                    ![t].copy = task_db[t].steps]
    /\ UNCHANGED <<task_db, topic, api>>
    /\ UNCHANGED nottasks

\* _complete_step, lines 135-152: the named step is marked in the copy and,
\* when that changed anything, steps and currentStep are written back.
CompleteStepWrite(t) ==
    /\ t \in DOMAIN handlers
    /\ handlers[t].at = "step_write"
    /\ LET step_name == Instr(t).arg
           steps == handlers[t].copy
       IN  task_db' =
             IF Updated(steps, step_name)
             THEN update_task(task_db, t,
                     [steps |-> MarkStep(steps, step_name),
                      currentStep |-> CurrentStepWritten(task_db[t], steps, step_name)])
             ELSE task_db
    /\ handlers' = [handlers EXCEPT ![t].at = "running", ![t].pc = @ + 1,
                                    ![t].copy = <<>>]
    /\ UNCHANGED <<topic, api>>
    /\ UNCHANGED nottasks

\* await _update_task(task_id, status="completed", endTime=..., resultFileUrl=...),
\* then _log_activity and, in finally, ai_engine.close().
HandlerFinish(t) ==
    /\ InTry(t)
    /\ Instr(t).op = "finish"
    /\ task_db' = update_task(task_db, t,
                      [status |-> "completed", resultFileUrl |-> Instr(t).arg])
    /\ handlers' = [handlers EXCEPT ![t].at = "returned"]
    /\ UNCHANGED <<topic, api>>
    /\ UNCHANGED nottasks

\* except Exception: await ws_manager.send_error(task_id, str(e), ...).
HandlerSendError(t) ==
    /\ t \in DOMAIN handlers
    /\ handlers[t].at = "catch"
    /\ topic' = [topic EXCEPT ![t] = Append(@, Frame("error", None, NoProgress, None))]
    /\ handlers' = [handlers EXCEPT ![t].at = "mark_failed"]
    /\ UNCHANGED <<task_db, api>>
    /\ UNCHANGED nottasks

\* except Exception: await _update_task(task_id, status="failed", endTime=...);
\* the exception ends here and the handler returns.
HandlerMarkFailed(t) ==
    /\ t \in DOMAIN handlers
    /\ handlers[t].at = "mark_failed"
    /\ task_db' = update_task(task_db, t, [status |-> "failed"])
    /\ handlers' = [handlers EXCEPT ![t].at = "returned"]
    /\ UNCHANGED <<topic, api>>
    /\ UNCHANGED nottasks

\* main.py, process_forex_analysis_task, lines 72-109: up to the next await
\* the handler (on its first pass) sets the status and the five steps, then
\* sets currentStep, marks the step and sends its update.
ForexAnalysisStep(t) ==
    /\ t \in DOMAIN handlers
    /\ handlers[t].params.task_type = "forex_analysis"
    /\ handlers[t].at = "running"
    /\ handlers[t].pc <= Len(legacy_steps)
    /\ LET i == handlers[t].pc
           steps == IF i = 1 THEN NewSteps(legacy_steps) ELSE task_db[t].steps
       IN  /\ task_db' = update_task(task_db, t,
                  [status |-> IF i = 1 THEN "running" ELSE task_db[t].status,
                   totalSteps |-> Len(steps),
                   currentStep |-> i,
                   steps |-> [steps EXCEPT ![i].isCompleted = TRUE]])
           /\ topic' = [topic EXCEPT ![t] =
                  Append(@, Frame(IF i < Len(steps) THEN "progress" ELSE "success",
                                  None, (i * 100) \div Len(steps), None))]
    /\ handlers' = Advance(t)
    /\ UNCHANGED api
    /\ UNCHANGED nottasks

\* main.py, process_forex_analysis_task, lines 111-129: the task is marked
\* completed and the final update is sent.
ForexAnalysisFinish(t) ==
    /\ t \in DOMAIN handlers
    /\ handlers[t].params.task_type = "forex_analysis"
    /\ handlers[t].at = "running"
    /\ handlers[t].pc > Len(legacy_steps)
    /\ task_db' = update_task(task_db, t,
                      [status |-> "completed", resultFileUrl |-> "results.pdf"])
    /\ topic' = [topic EXCEPT ![t] = Append(@, Frame("success", None, 100, None))]
    /\ handlers' = [handlers EXCEPT ![t].at = "returned"]
    /\ UNCHANGED api
    /\ UNCHANGED nottasks

NextTasks ==
    \/ \E params \in CreateRequests : CreateTask(params)
    \/ CreateLegacyTask
    \/ \E t \in TaskIds :
         \/ HandlerStatus(t)
         \/ HandlerEmit(t)
         \/ HandlerEngine(t)
         \/ HandlerRaise(t)
         \/ CompleteStepRead(t)
         \/ CompleteStepWrite(t)
         \/ HandlerFinish(t)
         \/ HandlerSendError(t)
         \/ HandlerMarkFailed(t)
         \/ ForexAnalysisStep(t)
         \/ ForexAnalysisFinish(t)

\* ---- one session over time ----

\* time passes.
SessionTick ==
    /\ session.now < MaxSessionTime
    /\ session' = [session EXCEPT !.now = @ + 1]
    /\ UNCHANGED notsession

\* websocket_endpoint line 33 / websocket_global line 60:
\* await ws_manager.connect(websocket, task_id), lines 43-82: the socket is
\* registered with last_seen = now and the welcome frame is sent to it.
SessionConnect(t, ok) ==
    /\ session.pc = "unopened"
    /\ session' = [send_to_socket([session EXCEPT !.task_id = t,
                                                  !.registered = TRUE,
                                                  !.last_seen = session.now],
                                  "success", ok)
                   EXCEPT !.pc = "receive"]
    /\ UNCHANGED notsession

\* data = await websocket.receive_text() returns "ping", lines 36-37 and 63-64.
SessionReceivePing ==
    /\ session.pc = "receive"
    /\ session' = [session EXCEPT !.pc = "pong", !.active_at = session.now]
    /\ UNCHANGED notsession

\* await websocket.send_text("pong"), lines 38 and 65; a failed write raises
\* into `except Exception`, lines 48-50 and 68-70.
SessionPong(ok) ==
    /\ session.pc = "pong"
    /\ session' =
         IF ok
         THEN [session EXCEPT !.pc = "receive", !.ponged = TRUE,
                              !.pong_at = session.now,
                              !.active_at = session.now]
         ELSE [disconnect(session, None) EXCEPT !.pc = "done"]
    /\ UNCHANGED notsession

\* receive_text() returns another text: websocket_endpoint echoes it with
\* send_update(..., websocket=websocket), lines 39-45; websocket_global
\* drops it, lines 63-65.
SessionReceiveText(ok) ==
    /\ session.pc = "receive"
    /\ session' =
         IF session.task_id = "global"
         THEN [session EXCEPT !.active_at = session.now]
         ELSE send_to_socket([session EXCEPT !.active_at = session.now],
                             "info", ok)
    /\ UNCHANGED notsession

\* A producer's send_update(task_id=...) reaches the session through
\* active_connections, lines 182-191.
SessionTopicWrite(ok) ==
    /\ session.pc \in {"receive", "pong"}
    /\ session.registered
    /\ session' = send_to_socket(session, "progress", ok)
    /\ UNCHANGED notsession

\* receive_text() raises WebSocketDisconnect, lines 46-47 and 66-67.
SessionReceiveDisconnect ==
    /\ session.pc = "receive"
    /\ session' = [disconnect(session, None) EXCEPT !.pc = "done"]
    /\ UNCHANGED notsession

NextSession ==
    \/ SessionTick
    \/ \E t \in SessionTopics, ok \in BOOLEAN : SessionConnect(t, ok)
    \/ SessionReceivePing
    \/ \E ok \in BOOLEAN : SessionPong(ok)
    \/ \E ok \in BOOLEAN : SessionReceiveText(ok)
    \/ \E ok \in BOOLEAN : SessionTopicWrite(ok)
    \/ SessionReceiveDisconnect

\* ---- get_currency_rates ----

\* time.monotonic() advances.
ForexTick ==
    /\ forex.monotonic < MaxMonotonic
    /\ forex' = [forex EXCEPT !.monotonic = @ + 1]
    /\ UNCHANGED notforex

\* get_currency_rates, lines 104-121: the cached table is returned when it is
\* younger than the minimum fetch interval (105-109) or when the service is
\* before its next retry and has a cached table (111-112); otherwise the
\* upstream request is issued.
GetCurrencyRates ==
    /\ forex.pc = "idle"
    /\ forex' =
         IF \/ /\ HasRates(forex)
               /\ forex.monotonic - forex.last_rates_fetch
                    < min_rates_fetch_interval_seconds
            \/ /\ forex.monotonic < forex.next_rates_retry
               /\ HasRates(forex)
         THEN [forex EXCEPT !.now = forex.monotonic, !.returned = "cache",
                            !.result = dict(forex.latest_rates)]
         ELSE [forex EXCEPT !.now = forex.monotonic, !.pc = "request",
                            !.returned = "nothing"]
    /\ UNCHANGED notforex

\* Lines 121-153: the upstream answers 200; with at least one clean rate the
\* table is cached, stamped with the time the call began, and the backoff is
\* cleared; the clean rates, possibly none, are returned.
ForexAnswer(clean) ==
    /\ forex.pc = "request"
    /\ forex' =
         IF clean
         THEN [forex EXCEPT !.pc = "idle", !.latest_rates = "table",
                            !.last_rates_fetch = forex.now,
                            !.rate_failure_streak = 0, !.next_rates_retry = 0,
                            !.backoff_seconds = 0,
                            !.returned = "fresh",
                            !.result = [same_object |-> FALSE, content |-> "table"]]
         ELSE [forex EXCEPT !.pc = "idle", !.returned = "none clean",
                            !.result = [same_object |-> FALSE, content |-> "empty"]]
    /\ UNCHANGED notforex

\* Lines 155-184: the upstream answers another status, or the request
\* raises; the error is recorded and the cached or the static table returned.
ForexFailure ==
    /\ forex.pc = "request"
    /\ forex.rate_failure_streak < MaxStreak
    /\ forex' = [record_rates_fetch_error(forex)
                 EXCEPT !.pc = "idle", !.returned = CacheOrStatic(forex),
                        !.result = CacheOrStaticResult(forex)]
    /\ UNCHANGED notforex

\* The caller changes the dict it was handed; when that dict is the object
\* self._latest_rates refers to, the cache changes with it.
ForexCallerChanges ==
    /\ forex.pc = "idle"
    /\ forex.returned # "nothing"
    /\ forex.result.content # "changed"
    /\ forex' = [forex EXCEPT !.result.content = "changed",
                              !.latest_rates = IF forex.result.same_object
                                               THEN "changed" ELSE @]
    /\ UNCHANGED notforex

NextForex ==
    \/ ForexTick
    \/ GetCurrencyRates
    \/ \E clean \in BOOLEAN : ForexAnswer(clean)
    \/ ForexFailure
    \/ ForexCallerChanges

\* ---- the forex stream ----

\* The first or last session connects or disconnects.
SessionsChange ==
    /\ stream' = [stream EXCEPT !.sessions = ~@]
    /\ UNCHANGED <<stream_tasks, ready>>
    /\ UNCHANGED notstream

\* start_forex_stream(interval), lines 324-350, which has no await: a running
\* stream with the same interval is kept; one with another interval is
\* stopped first; a task running stream_live_data is created and entered
\* under "forex_stream".
StartForexStream(interval) ==
    /\ stream.created < MaxStreamTasks
    /\ ~(is_forex_stream_running(stream, stream_tasks)
          /\ interval = stream.forex_stream_interval)
    /\ LET n == stream.created + 1
           stopped == IF is_forex_stream_running(stream, stream_tasks)
                      THEN Cancel(stream_tasks, ready, stream.streaming_task)
                      ELSE [tasks |-> stream_tasks, ready |-> ready]
       IN  /\ stream_tasks' = [stopped.tasks EXCEPT ![n].pc = "new"]
           /\ ready' = call_soon(stopped.ready, n)
           /\ stream' = [stream EXCEPT !.forex_stream_interval = interval,
                                       !.streaming_task = n,
                                       !.created = n]
    /\ UNCHANGED notstream

\* stop_forex_stream, lines 352-357.
StopForexStream ==
    /\ stream.streaming_task # NoStreamTask
    /\ LET stopped == Cancel(stream_tasks, ready, stream.streaming_task)
       IN  /\ stream_tasks' = stopped.tasks
           /\ ready' = stopped.ready
    /\ stream' = [stream EXCEPT !.streaming_task = NoStreamTask]
    /\ UNCHANGED notstream

\* The timer or the I/O a suspended task waits for completes.
StreamWake(t) ==
    /\ stream_tasks[t].pc \in StreamAwaits
    /\ ~InQueue(ready, t)
    /\ ready' = call_soon(ready, t)
    /\ UNCHANGED <<stream, stream_tasks>>
    /\ UNCHANGED notstream

\* The task at the head of the ready queue is the one the loop steps next.
IsNext(t) == ready # <<>> /\ Head(ready) = t

\* Where a task goes from the loop test, with the fields it writes.
Loop(s, t) ==
    IF LoopTop(s) = "exit"
    THEN /\ stream' = CleanupStream(s)
         /\ stream_tasks' =
              [stream_tasks EXCEPT ![t].cleaned = TRUE,
                                   ![t].pc = IF s.session = "none"
                                             THEN "done" ELSE "closing"]
    ELSE /\ stream' = IF LoopTop(s) = "fetch" /\ s.session = "none"
                      THEN initialize(s) ELSE s
         /\ stream_tasks' =
              [stream_tasks EXCEPT ![t].pc = LoopTop(s),
                                   ![t].idled = @ \/ LoopTop(s) = "idle_sleep"]

\* A task cancelled before its first step never runs its coroutine.
TaskCancelledUnstarted(t) ==
    /\ IsNext(t)
    /\ stream_tasks[t].pc = "new"
    /\ stream_tasks[t].must_cancel
    /\ stream_tasks' = [stream_tasks EXCEPT ![t].pc = "done"]
    /\ ready' = Tail(ready)
    /\ UNCHANGED stream
    /\ UNCHANGED notstream

\* stream_live_data, lines 563-580: running is set, initialize() opens an
\* HTTP session unless an open one exists, and the loop is entered.
TaskBegin(t) ==
    /\ IsNext(t)
    /\ stream_tasks[t].pc = "new"
    /\ ~stream_tasks[t].must_cancel
    /\ Loop([(IF stream.session = "open" THEN stream ELSE initialize(stream))
              EXCEPT !.running = TRUE], t)
    /\ ready' = Tail(ready)
    /\ UNCHANGED notstream

\* asyncio.sleep returns, lines 572-576 and 604: back to the loop test.
TaskSleepEnd(t) ==
    /\ IsNext(t)
    /\ stream_tasks[t].pc \in {"idle_sleep", "sleep"}
    /\ ~stream_tasks[t].must_cancel
    /\ Loop(stream, t)
    /\ ready' = Tail(ready)
    /\ UNCHANGED notstream

\* get_currency_rates returns, lines 580-594: the update is built and the
\* callback broadcasts it; broadcast awaits one write per session and none
\* when nobody is connected, in which case the sleep of line 604 is reached.
TaskFetched(t) ==
    /\ IsNext(t)
    /\ stream_tasks[t].pc = "fetch"
    /\ ~stream_tasks[t].must_cancel
    /\ stream_tasks' = [stream_tasks EXCEPT ![t].pc = IF stream.sessions
                                                      THEN "callback" ELSE "sleep"]
    /\ ready' = Tail(ready)
    /\ UNCHANGED stream
    /\ UNCHANGED notstream

\* The broadcast returns, lines 594-604.
TaskBroadcastEnd(t) ==
    /\ IsNext(t)
    /\ stream_tasks[t].pc = "callback"
    /\ ~stream_tasks[t].must_cancel
    /\ stream_tasks' = [stream_tasks EXCEPT ![t].pc = "sleep"]
    /\ ready' = Tail(ready)
    /\ UNCHANGED stream
    /\ UNCHANGED notstream

\* CancelledError is raised at the await the task is suspended at and
\* reaches `except asyncio.CancelledError`, lines 606-610.
TaskCancelled(t) ==
    /\ IsNext(t)
    /\ stream_tasks[t].pc \in {"idle_sleep", "fetch", "callback", "sleep"}
    /\ stream_tasks[t].must_cancel
    /\ stream' = CleanupStream(stream)
    /\ stream_tasks' =
         [stream_tasks EXCEPT ![t].cleaned = TRUE,
                              ![t].pc = IF stream.session = "none"
                                        THEN "done" ELSE "closing"]
    /\ ready' = Tail(ready)
    /\ UNCHANGED notstream

\* close(), lines 63-65: session.close() has returned; self.session = None.
TaskClosed(t) ==
    /\ IsNext(t)
    /\ stream_tasks[t].pc = "closing"
    /\ stream' = [stream EXCEPT !.session = "none"]
    /\ stream_tasks' = [stream_tasks EXCEPT ![t].pc = "done"]
    /\ ready' = Tail(ready)
    /\ UNCHANGED notstream

NextStream ==
    \/ SessionsChange
    \/ \E interval \in StreamIntervals : StartForexStream(interval)
    \/ StopForexStream
    \/ \E t \in StreamTaskIds :
         \/ StreamWake(t)
         \/ TaskCancelledUnstarted(t)
         \/ TaskBegin(t)
         \/ TaskSleepEnd(t)
         \/ TaskFetched(t)
         \/ TaskBroadcastEnd(t)
         \/ TaskCancelled(t)
         \/ TaskClosed(t)

(***************************************************************************)
(* Part X, actions.                                                        *)
(***************************************************************************)

\* execute_auto_trade (app/ai_forex_engine.py lines 408-440) stores the
\* trade it built as the active position of its pair; one position is
\* followed.
ExecuteAutoTrade(trade) ==
    /\ risk.pc = "empty"
    /\ risk' = [risk EXCEPT !.pc = "open", !.position = trade, !.closed_trade = trade]
    /\ UNCHANGED notrisk

\* One round of monitor_positions (app/ai_forex_engine.py lines 442-456) over
\* the active position, whose pair has the current rate `current_price`: a
\* closed trade is deleted from active_positions.
MonitorPositions(current_price) ==
    /\ risk.pc = "open"
    /\ LET closed_trade == evaluate_position(risk.position, current_price)
       IN  risk' = [risk EXCEPT !.called = TRUE,
                                !.current_price = current_price,
                                !.closed_trade = closed_trade,
                                !.pc = IF closed_trade.status = "CLOSED"
                                       THEN "closed" ELSE "open"]
    /\ UNCHANGED notrisk

NextRisk ==
    \/ \E trade \in Positions : ExecuteAutoTrade(trade)
    \/ \E current_price \in Prices : MonitorPositions(current_price)

\* get_pair_forecast, lines 265-283: the pair is normalised, its price read
\* from the rates get_currency_rates returned (`cached`: the pair is among
\* them) or else derived from the USD-base table; without a price the call
\* raises ValueError("Pair ... is not available for forecasting").
GetPairForecast(pair, cached, table) ==
    /\ forecast.pc = "idle"
    /\ LET normalized_pair == normalize_pair(pair)
           derived == ~cached /\ derive_pair_from_usd_table(normalized_pair, table)
       IN  forecast' = [forecast EXCEPT
                          !.called = TRUE,
                          !.normalized_pair = normalized_pair,
                          !.cached = cached,
                          !.derived = derived,
                          !.pc = IF cached \/ derived THEN "news" ELSE "raised"]
    /\ UNCHANGED notforecast

\* get_pair_forecast, lines 285-395, once the news and the sentiment are in:
\* the history of the pair has `history_len` prices, whose momentum is above
\* 0.05%, below -0.05% or in between; with fewer than two prices it is 0.
ForecastReturn(history_len, trend, momentum_score, volatility) ==
    /\ forecast.pc = "news"
    /\ history_len < 2 => momentum_score = 0
    /\ forecast.derived => history_len >= 1
    /\ forecast' = [forecast EXCEPT
                      !.pc = "returned",
                      !.history_len = history_len,
                      !.trend = trend,
                      !.momentum_score = momentum_score,
                      !.volatility = volatility,
                      !.confidence_percent =
                          confidence_percent(history_len, trend, momentum_score,
                                             volatility)]
    /\ UNCHANGED notforecast

NextForecast ==
    \/ \E pair \in PairTexts, cached \in BOOLEAN, table \in SUBSET Currencies :
           GetPairForecast(pair, cached, table)
    \/ \E history_len \in HistoryDepths, trend \in {"bullish", "bearish", "neutral"},
          momentum_score \in {-1, 0, 1}, volatility \in {"high", "low", "medium"} :
           ForecastReturn(history_len, trend, momentum_score, volatility)

\* connect(), app/enhanced_websocket_manager.py lines 53-69: the session is
\* registered and the coroutine waits in redis_store.set_ws_connection.
BgConnect ==
    /\ bg.pc = "unopened"
    /\ bg' = [bg EXCEPT !.pc = "connecting", !.registered = TRUE, !.set = "hset"]
    /\ UNCHANGED notbg

\* set_ws_connection, app/services/redis_store.py lines 161-177: the HSET is
\* carried out or raises, and connect() goes on.
BgSetDone(ok) ==
    /\ bg.set = "hset"
    /\ bg' = [bg EXCEPT !.set = "done",
                        !.entry = hset(bg.entry, ok),
                        !.failed = @ \/ ~ok,
                        !.pc = IF @ = "connecting" THEN "open" ELSE @]
    /\ UNCHANGED notbg

\* mark_connection_alive, lines 112-125, after a write to the session went
\* through (lines 182, 189, 267): patch_ws_connection is scheduled as a
\* background task, which sends its HGET.
BgMarkAlive(p) ==
    /\ bg.registered
    /\ bg.patch[p] = "none"
    /\ \A q \in PatchIds : q < p => bg.patch[q] # "none"
    /\ bg' = [bg EXCEPT !.patch[p] = "hget"]
    /\ UNCHANGED notbg

\* patch_ws_connection, redis_store.py lines 179-204: the HGET answers, the
\* payload is updated and the HSET is sent; an exception ends the operation.
BgPatchRead(p, ok) ==
    /\ bg.patch[p] = "hget"
    /\ bg' = [bg EXCEPT !.patch[p] = IF ok THEN "hset" ELSE "done",
                        !.failed = @ \/ ~ok]
    /\ UNCHANGED notbg

\* patch_ws_connection, lines 195-204: the HSET is carried out or raises.
BgPatchWrite(p, ok) ==
    /\ bg.patch[p] = "hset"
    /\ bg' = [bg EXCEPT !.patch[p] = "done",
                        !.entry = hset(bg.entry, ok),
                        !.failed = @ \/ ~ok]
    /\ UNCHANGED notbg

\* disconnect(), enhanced_websocket_manager.py lines 84-110, called by the
\* endpoint or after a failed write: the session leaves the indexes and
\* remove_ws_connection is scheduled as a background task.
BgDisconnect ==
    /\ bg.registered
    /\ bg' = [bg EXCEPT !.pc = "closed", !.registered = FALSE, !.removal = "hdel"]
    /\ UNCHANGED notbg

\* remove_ws_connection, redis_store.py lines 206-216: the HDEL is carried
\* out or raises.
BgRemoveDone(ok) ==
    /\ bg.removal = "hdel"
    /\ bg' = [bg EXCEPT !.removal = "done",
                        !.entry = hdel(bg.entry, ok),
                        !.failed = @ \/ ~ok]
    /\ UNCHANGED notbg

NextBg ==
    \/ BgConnect
    \/ \E ok \in BOOLEAN : BgSetDone(ok)
    \/ \E p \in PatchIds : BgMarkAlive(p)
    \/ \E p \in PatchIds, ok \in BOOLEAN : BgPatchRead(p, ok)
    \/ \E p \in PatchIds, ok \in BOOLEAN : BgPatchWrite(p, ok)
    \/ BgDisconnect
    \/ \E ok \in BOOLEAN : BgRemoveDone(ok)

\* _emit_alert_hooks run by emitter e with the trigger loop at index r.i and
\* the latch r.latch: it suspends in the webhook of the next alert that is not
\* latched, or, the loop over, in the webhook of the first resolved id (lines
\* 293-297), or returns.
EmitUpToAwait(e, alerts, r) ==
    /\ alert_latch' = r.latch
    /\ IF r.i <= Len(alerts)
       THEN emitters' = [CallMade(emitters, "triggered", alerts[r.i].id) EXCEPT
                           !.run[e] = [pc |-> "triggered", alerts |-> alerts,
                                       i |-> r.i, resolved |-> <<>>]]
       ELSE LET resolved == Resolved(r.latch, IdsOf(alerts))
            IN  IF resolved = <<>>
                THEN emitters' = [emitters EXCEPT !.run[e] = IdleEmitter]
                ELSE emitters' = [CallMade(emitters, "resolved", Head(resolved).id)
                                  EXCEPT !.run[e] = [pc |-> "resolved",
                                                     alerts |-> alerts, i |-> r.i,
                                                     resolved |-> resolved]]
    /\ UNCHANGED notemitters

\* ops_status, ops_alerts or ops_metrics, lines 349-429, with the webhook
\* configured: the alerts are built and _emit_alert_hooks runs up to its
\* first await.
EmitBegin(e, snapshot) ==
    /\ emitters.run[e].pc = "idle"
    /\ LET alerts == build_alerts(snapshot)
       IN  EmitUpToAwait(e, alerts, TriggerFrom(alerts, 1, alert_latch))

\* The webhook of a triggered alert has answered: the alert is latched (lines
\* 284-290) and the loop goes on.
EmitTriggeredPosted(e) ==
    /\ emitters.run[e].pc = "triggered"
    /\ LET run == emitters.run[e]
       IN  EmitUpToAwait(e, run.alerts,
               TriggerFrom(run.alerts, run.i + 1,
                           LatchPut(alert_latch, run.alerts[run.i])))

\* The webhook of a resolved id has answered: the id leaves the latch (line
\* 298) and the loop over the resolved ids goes on.
EmitResolvedPosted(e) ==
    /\ emitters.run[e].pc = "resolved"
    /\ LET run == emitters.run[e]
           rest == Tail(run.resolved)
       IN  /\ alert_latch' = LatchPop(alert_latch, Head(run.resolved).id)
           /\ IF rest = <<>>
              THEN emitters' = [emitters EXCEPT !.run[e] = IdleEmitter]
              ELSE emitters' = [CallMade(emitters, "resolved", Head(rest).id)
                                EXCEPT !.run[e].resolved = rest]
    /\ UNCHANGED notemitters

NextEmitters ==
    \E e \in EmitterIds :
        \/ \E snapshot \in EmitterSnapshots : EmitBegin(e, snapshot)
        \/ EmitTriggeredPosted(e)
        \/ EmitResolvedPosted(e)

(***************************************************************************)
(* Claims about the connection manager                                     *)
(***************************************************************************)

TopicsHolding(s) == {t \in DOMAIN active_connections : s \in active_connections[t]}

RegistryEntriesOf(s) ==
    {c \in DOMAIN connection_registry :
        s \in DOMAIN websocket_to_connection_id /\ websocket_to_connection_id[s] = c}

\* Registered in the sense of all three indexes, under topic t.
RegisteredUnder(s, t) ==
    /\ TopicsHolding(s) = {t}
    /\ s \in all_connections
    /\ Cardinality(RegistryEntriesOf(s)) = 1
    /\ \A c \in RegistryEntriesOf(s) : connection_registry[c].task_id = t

InNoIndex(s) ==
    /\ TopicsHolding(s) = {}
    /\ s \notin all_connections
    /\ RegistryEntriesOf(s) = {}

SendUpdateReturns == snd.pc # "returned" /\ snd'.pc = "returned"

CallOnSocket(s) ==
    \/ ep[s].pc = "receive" /\ ep'[s].pc = "done"
    \/ ep[s].pc \in {"pong_write", "echo_write"} /\ ep'[s].pc # ep[s].pc
    \/ snd.pc = "writing" /\ snd.cur = s /\ snd' # snd
    \/ bc.pc = "writing" /\ bc.cur = s /\ bc' # bc

AlreadyDisconnected(s) == s \notin live /\ ep[s].pc # "init"

C4_WritesSerialized == \A s \in Sockets : WritesInProgress(s) <= 1

\* C25: while connect() of a newly accepted session has not yet started to
\* write the welcome frame, no producer is writing a topic frame or a
\* broadcast to that session.
C25_WelcomeFirst ==
    \A s \in Sockets :
        ep[s].pc = "set_ws"
          => /\ ~(snd.pc = "writing" /\ snd.cur = s)
             /\ ~(bc.pc = "writing" /\ bc.cur = s)

(***************************************************************************)
(* Claims about the task queue                                             *)
(***************************************************************************)

\* get_stats()["queue_size"], lines 176-180.
GetStatsQueueSize ==
    IF tq.backend_active = "memory" /\ tq.has_queue THEN Len(tq.queue)
    ELSE Max(0, tq.redis_queue_size_estimate)

\* No worker is between taking an item and updating a counter.
Quiescent == \A w \in WorkerIds : workers[w].pc # "run"

InFifo(j) == \E i \in 1..Len(tq.queue) : tq.queue[i] = j

InSharedList(j) == \E i \in 1..Len(redis.list) : redis.list[i] = j

\* The service runs on the memory backend and no accepted job sits on the
\* shared list.
MemoryMode == tq.backend_active = "memory" /\ redis.list = <<>>

\* C5: in memory mode, at every point where no worker is between taking an
\* item and updating a counter, enqueued = completed + failed + queue_size,
\* queue_size being what get_stats() reports.
C5_Original ==
    (MemoryMode /\ Quiescent) =>
        tq.enqueued = tq.completed + tq.failed + GetStatsQueueSize

\* stop() is past started = False and has not returned, in memory mode.
MemoryStopping ==
    /\ ctl.pc \in {"stop_put", "stop_gather"}
    /\ tq.backend_active = "memory"

\* The step in which stop() returns in memory mode.
MemoryStopReturns ==
    /\ ctl.pc = "stop_gather"
    /\ ctl'.pc = "stopped"

C7_AtLeastOnce ==
    \A j \in JobIds :
        /\ jobs[j].state = "queued" => (InFifo(j) \/ InSharedList(j))
        /\ jobs[j].state = "running" =>
              \E w \in WorkerIds : workers[w].pc = "run" /\ workers[w].item = j

\* Worker tasks that have been created and have not finished.
LiveWorkers == {w \in WorkerIds : ~WorkerDone(w)}

\* A worker's job raised in this step.
JobRaised(w) ==
    /\ workers[w].pc = "run"
    /\ workers'[w].pc # "run"
    /\ jobs[workers[w].item].kind = "raises"

\* C8: a job that raises adds one to failed and nothing to completed, its
\* worker goes back to waiting for the next item, and while the service is
\* started the number of live workers equals worker_count.
C8_FailureIsCounted ==
    /\ [][\A w \in WorkerIds : JobRaised(w) =>
            /\ tq'.failed = tq.failed + 1
            /\ tq'.completed = tq.completed
            /\ workers'[w].pc = IF tq.backend_active = "memory" THEN "get"
                                ELSE IF tq.started THEN "pop" ELSE "exited"]_vars
    /\ [](tq.started => Cardinality(LiveWorkers) = tq.worker_count)

\* C8 witness: after a job failed, a worker is running a later job.
C8_Witness ==
    /\ tq.started
    /\ tq.failed >= 1
    /\ \E w \in WorkerIds : workers[w].pc = "run"
    /\ Cardinality(LiveWorkers) = tq.worker_count

\* An enqueue() call for job j is made in this step.
EnqueueCall(j) == jobs[j].state = "new" /\ jobs'[j].state # "new"

\* The memory FIFO holds max_size items.
FifoFull ==
    /\ tq.backend_active = "memory"
    /\ tq.has_queue
    /\ Len(tq.queue) >= tq.max_size

\* C9: an enqueue() made while the service is not started, or while the
\* memory FIFO holds max_size items, returns False in the same step and
\* changes no counter, nor the FIFO, nor the shared list.
C9_RejectsWithoutSuspending ==
    [][\A j \in JobIds : (EnqueueCall(j) /\ (~tq.started \/ FifoFull)) =>
          /\ enq'.pc = "idle"
          /\ enq'.ret = "False"
          /\ jobs'[j].state = "rejected"
          /\ tq' = tq
          /\ redis'.list = redis.list]_vars

\* C9 witness: with the FIFO full of an accepted job, the next enqueue was
\* rejected; the first job is still waiting.
C9_Witness ==
    /\ tq.started
    /\ FifoFull
    /\ enq.pc = "idle"
    /\ enq.ret = "False"
    /\ jobs[1].state = "queued"
    /\ jobs[2].state = "rejected"

\* start() fell back: redis was requested, memory is active.
Fallback ==
    /\ tq.started
    /\ tq.backend_requested = "redis"
    /\ tq.backend_active = "memory"

\* C10: after start() fell back to memory the service has a FIFO bounded by
\* max_size and worker_count live workers; an enqueue with room in the FIFO
\* is accepted whether or not the callable is registered; and an accepted job
\* that returns normally is counted completed.
C10_FallbackRuns ==
    /\ [](Fallback =>
            /\ tq.has_queue
            /\ tq.max_size >= 1
            /\ Len(tq.queue) <= tq.max_size
            /\ tq.worker_count >= 1
            /\ Cardinality(LiveWorkers) = tq.worker_count)
    /\ [][\A j \in JobIds : (Fallback /\ EnqueueCall(j) /\ ~FifoFull) =>
            /\ jobs'[j].state = "queued"
            /\ enq'.ret = "True"
            /\ tq'.enqueued = tq.enqueued + 1]_vars
    /\ \A j \in JobIds :
         (Fallback /\ InFifo(j) /\ jobs[j].kind = "ok") ~> (jobs[j].state = "completed")

\* C10 witness: in a fallback run the last enqueue, of an unregistered
\* callable, returned True and its job was executed and counted.
C10_Witness ==
    /\ Fallback
    /\ ~enq.registered
    /\ enq.ret = "True"
    /\ jobs[1].state = "completed"
    /\ jobs[2].state = "new"
    /\ tq.completed = 1
    /\ redis.next_connect_attempt > 0

\* The service runs on the shared list.
SharedMode == tq.started /\ tq.backend_active = "redis"

\* The service runs on the memory FIFO.
MemoryStarted == tq.started /\ tq.backend_active = "memory" /\ tq.has_queue

\* C11: in shared mode an enqueue of a callable that is registered under no
\* handler name returns False in the same step and leaves the shared list and
\* the counters as they were; in memory mode an enqueue with room in the FIFO
\* is accepted for a callable that is registered and for one that is not.
C11_SharedNeedsHandler ==
    [][\A j \in JobIds :
         /\ (EnqueueCall(j) /\ SharedMode /\ ~enq'.registered) =>
               /\ enq'.pc = "idle"
               /\ enq'.ret = "False"
               /\ jobs'[j].state = "rejected"
               /\ redis'.list = redis.list
               /\ tq' = tq
         /\ (EnqueueCall(j) /\ MemoryStarted /\ ~FifoFull) =>
               /\ enq'.ret = "True"
               /\ jobs'[j].state = "queued"
               /\ InFifo(j)']_vars

\* C11 witness: in shared mode the handler lookup of the last enqueue found
\* no name and the call returned False, after a registered callable had been
\* pushed to the shared list.
C11_Witness ==
    /\ SharedMode
    /\ enq.pc = "idle"
    /\ enq.handler_name = "none"
    /\ ~enq.registered
    /\ enq.ret = "False"
    /\ jobs[1].state = "queued" /\ InSharedList(1)
    /\ jobs[2].state = "rejected"

\* ---- the store under concurrent callers ----

\* The cooldown a failed probe started is still running.
InCooldown ==
    /\ probe_failed_at.failed
    /\ redis.now < probe_failed_at.at + RetrySeconds

\* In this step c makes progress in ensure_connected(): it calls it, or it
\* gets the lock it waited for.
EnsureConnectedStep(c) ==
    /\ callers[c].pc \in {"idle", "returned", "wait_lock"}
    /\ callers'[c] # callers[c]

\* ensure_connected() answered c True, False in this step.
AnsweredTrue(c) ==
    \/ callers'[c].pc = "calling"
    \/ callers'[c].pc = "returned" /\ callers'[c].op = "ensure_connected"
         /\ callers'[c].result = "True"

AnsweredFalse(c) ==
    /\ callers'[c].pc = "returned"
    /\ callers'[c].result = SentinelOf(callers'[c].op)
    /\ callers'[c].cause \in {"disabled", "cooldown"}

Probing == {c \in Procs : callers[c].pc = "probing"}

\* C12: while a client is cached ensure_connected() answers True in the same
\* step without probing; while the cooldown of a failed probe runs every call
\* is answered False and no probe is started; never are two probes in flight,
\* whatever the number of concurrent callers.
C12_ProbeOncePerCooldown ==
    [][/\ \A c \in Procs :
            /\ (EnsureConnectedStep(c) /\ callers[c].pc # "wait_lock" /\ redis.client)
                 => (AnsweredTrue(c) /\ callers'[c].cause = "cached" /\ Probing' = Probing)
            /\ (EnsureConnectedStep(c) /\ InCooldown)
                 => (AnsweredFalse(c) /\ Probing' = Probing)
       /\ Cardinality(Probing') <= 1
       /\ (Probing' # Probing /\ Probing' # {}) => ~InCooldown]_vars

\* One caller's probe failed and the other, which called at the same time,
\* was answered False for the cooldown.
C12_Witness ==
    /\ InCooldown
    /\ callers[1] = Returned("ensure_connected", "False", "cooldown")
    /\ callers[OpCaller].pc = "returned"
    /\ callers[OpCaller].cause = "probe_failed"
    /\ redis.now = probe_failed_at.at
    /\ lock = [locked |-> FALSE, waiters |-> <<>>]

\* The reasons for which an operation gives up.
FailureCauses == {"disabled", "cooldown", "probe_failed", "call_failed"}

\* C13: no store operation ever raises, and one that ends because the store
\* is disabled, cannot be reached, is in its cooldown, or because its call
\* failed on an established connection returns its sentinel.
C13_SentinelNeverRaises ==
    \A c \in Procs :
        callers[c].pc = "returned"
          => /\ callers[c].result # "raised"
             /\ (callers[c].op \in StoreOps /\ callers[c].cause \in FailureCauses)
                  => callers[c].result = SentinelOf(callers[c].op)

\* The registry read failed on an established connection although the hash
\* has entries: the empty map is returned.
C13_Witness ==
    /\ callers[OpCaller] = Returned("get_ws_registry", "{}", "call_failed")
    /\ ws_registry # {}
    /\ redis.client

\* A call of c on the established connection fails in this step.
CallFails(c) ==
    /\ callers[c].pc = "calling"
    /\ callers'[c].pc = "returned"
    /\ callers'[c].cause = "call_failed"

\* C14: when a store call fails the cooldown starts, so the next
\* ensure_connected() is answered False without a connection attempt.
C14_FailureStartsCooldown ==
    [][\A c \in Procs : CallFails(c) => (EnsureConnectedPath("redis") = "no")']_vars

\* ---- the limiters ----

\* The middleware the last request entered.
Entered(x, mw) == \E i \in 1..Len(x.trace) : x.trace[i] = mw

\* The middleware called call_next: the trace goes on behind it.
PassedOn(x, mw) == \E i \in 1..(Len(x.trace) - 1) : x.trace[i] = mw

IsErrorEnvelope(body) ==
    /\ IsDict(body)
    /\ {"status", "message"} \subseteq KeysOf(body)
    /\ body.fields["status"] = JStr("error")

\* How many of the requests in history were passed on in the window of
\* length window that ends at now, its start excluded.
InWindow(history, now, window) ==
    Cardinality({i \in 1..Len(history) : history[i] > now - window /\ history[i] <= now})

\* A request is served in this step.
Serves == clock' = clock /\ last'.served /\ env' = env

\* What a limiter with the given history has to do with the request served
\* in this step: pass it on if fewer than max of the requests it passed on
\* lie in the window, answer 429 with an error envelope otherwise.
LimiterDecides(mw, history, history_after, max, window) ==
    IF InWindow(history, clock, window) < max
    THEN /\ PassedOn(last', mw)
         /\ history_after = Append(history, clock)
    ELSE /\ ~PassedOn(last', mw)
         /\ history_after = history
         /\ last'.response.status_code = 429
         /\ IsErrorEnvelope(last'.response.body)

\* C15: each limiter passes on at most max requests of one client in any
\* window, answers 429 with an error envelope to every request beyond that,
\* and passes the client's requests on again as soon as fewer than max of
\* those it passed on lie inside the window.
C15_SlidingWindow ==
    [][/\ \A h \in Hosts, t \in 0..MaxClock :
            InWindow(Bucket(passed'.global, h), t, RateLimitWindow) <= RateLimitMax
       /\ \A k \in AuthKeys, t \in 0..MaxClock :
            InWindow(Bucket(passed'.auth, k), t, AuthRateLimitWindow) <= AuthRateLimitMax
       /\ (Serves /\ Entered(last', "rate_limit") /\ last'.req.path \notin rate_limit_exempt)
            => LimiterDecides("rate_limit", Bucket(passed.global, last'.req.host),
                              Bucket(passed'.global, last'.req.host),
                              RateLimitMax, RateLimitWindow)
       /\ (Serves /\ Entered(last', "auth_rate_limit")
             /\ last'.req.path \in auth_rate_limited_paths)
            => LimiterDecides("auth_rate_limit",
                              Bucket(passed.auth, <<last'.req.host, last'.req.path>>),
                              Bucket(passed'.auth, <<last'.req.host, last'.req.path>>),
                              AuthRateLimitMax, AuthRateLimitWindow)]_vars

\* A client that was passed on again after its first window is answered 429
\* once it has used up the limit a second time, while the other client was
\* served.
C15_Witness ==
    /\ last.served
    /\ last.req.host = "10.0.0.1"
    /\ last.response.status_code = 429
    /\ ~PassedOn(last, "rate_limit")
    /\ Len(Bucket(passed.global, "10.0.0.1")) = RateLimitMax + RateLimitMax
    /\ clock >= RateLimitWindow
    /\ Bucket(passed.global, "10.0.0.2") # <<>>
    /\ Bucket(passed.auth, <<"10.0.0.1", "/auth/login">>) # <<>>

\* ---- the chain ----

\* The last middleware the request entered, "route" if it reached the route.
Innermost(x) == x.trace[Len(x.trace)]

\* C16: a request under the API prefix that is not an OPTIONS request
\* reaches the route only with a verified token; when verification fails
\* the answer is a 401 error envelope and nothing inside the token gate runs.
C16_FailsClosed ==
    (last.served /\ last.req.method # "OPTIONS" /\ StartsWithApi(last.req.path))
      => /\ Entered(last, "route") => VerifyHttpRequest(last.req)
         /\ ~VerifyHttpRequest(last.req)
              => /\ last.response.status_code = 401
                 /\ IsErrorEnvelope(last.response.body)
                 /\ Innermost(last) = "strict_auth"

\* A POST under the API prefix with an invalid token was answered 401 by the
\* token gate.
C16_Witness ==
    /\ last.served
    /\ last.req.method = "POST"
    /\ last.req.path = "/api/forex/rates"
    /\ last.req.token = "invalid"
    /\ last.response.status_code = 401
    /\ IsErrorEnvelope(last.response.body)
    /\ Innermost(last) = "strict_auth"
    /\ ~Entered(last, "route")

\* The order the chain is specified to have on the request path.
SpecifiedOrder ==
    <<"request_id", "envelope", "security_headers", "request_size_limit",
      "auth_rate_limit", "rate_limit", "strict_auth", "cors">>

Position(mw) == CHOOSE i \in 1..Len(SpecifiedOrder) : SpecifiedOrder[i] = mw

Specified == {SpecifiedOrder[i] : i \in 1..Len(SpecifiedOrder)}

\* C17: the middleware a request enters, it enters in the specified order:
\* correlation id, envelope wrap, security headers, payload size limit, auth
\* rate limit, global rate limit, token verification, CORS; a request whose
\* token is verified has been counted by the global rate limiter before.
C17_SpecifiedOrder ==
    last.served
      => /\ \A i, j \in 1..Len(last.trace) :
              (i < j /\ last.trace[i] \in Specified /\ last.trace[j] \in Specified)
                => Position(last.trace[i]) < Position(last.trace[j])
         /\ (Guarded(last.req) /\ last.req.path \notin rate_limit_exempt)
              => Entered(last, "rate_limit")

\* C18: every response carries the security headers, the error responses of
\* a middleware that answers the request itself included.
C18_SecurityHeadersAlways ==
    last.served => SecurityHeaders \subseteq last.response.headers

\* The correlation id of a request: the inbound header if it is not empty,
\* a minted id otherwise.
CorrelationId(req) == IF InboundId(req) # "" THEN InboundId(req) ELSE Minted

\* C19: every response carries X-Request-ID, equal to the inbound id if the
\* request sent a non-empty one and to a minted id otherwise, and the
\* requestId of an error envelope is that id.
C19_RequestIdAlways ==
    last.served
      => /\ last.response.x_request_id = CorrelationId(last.req)
         /\ IsErrorEnvelope(last.response.body)
              => /\ "requestId" \in KeysOf(last.response.body)
                 /\ last.response.body.fields["requestId"] = JStr(CorrelationId(last.req))

\* ---- the envelope ----

\* The envelope middleware does not return the response as it came for
\* reasons of path, method, status or content type.
EnvelopeApplies ==
    /\ env.stage = "applied"
    /\ StartsWithApi(env.req.path) /\ ~StartsWithApiWs(env.req.path)
    /\ env.req.method # "OPTIONS"
    /\ env.response.status_code < 400
    /\ env.response.content_type = "application/json"

\* C20: a body of the envelope shape leaves the envelope middleware unchanged
\* but for a requestId that is filled in when it was missing, and passing a
\* response through the middleware twice gives the body of passing it once.
C20_EnvelopeIdempotent ==
    EnvelopeApplies
      => /\ is_api_response_payload(env.response.body)
              => /\ KeysOf(env.once.body) = KeysOf(env.response.body) \cup {"requestId"}
                 /\ \A k \in KeysOf(env.response.body) :
                        env.once.body.fields[k] = env.response.body.fields[k]
                 /\ "requestId" \notin KeysOf(env.response.body)
                      => env.once.body.fields["requestId"] = JStr(env.state_request_id)
         /\ env.twice.body = env.once.body

(***************************************************************************)
(* Claims about the ops alerts                                             *)
(***************************************************************************)

\* The ids latched before the last evaluation and the ids it found active.
LatchedBefore == LatchIds(hook_run.before)
ActiveNow == IdsOf(hook_run.alerts)

\* How many calls of _send_alert_webhook the last evaluation made for one
\* event type and id.
CallCount(event_type, id) ==
    Cardinality({i \in 1..Len(hook_run.calls) :
                    hook_run.calls[i] = [event_type |-> event_type, id |-> id]})

\* C21: after an evaluation with hooks enabled, run with no other evaluation
\* in between, the latch holds exactly the ids of the alerts the evaluation
\* found; one "triggered" webhook call was made for each id that entered the
\* latch, one "resolved" call for each id that left it, and none for an id
\* that stayed or was never latched; with a webhook url set and the default
\* minimum severity each call is one POST.
C21_LatchFollowsAlerts ==
    (hook_run.ran /\ hook_run.enabled)
      => /\ LatchIds(alert_latch) = ActiveNow
         /\ Len(alert_latch) = Cardinality(ActiveNow)
         /\ \A id \in LatchedBefore \cup ActiveNow :
              /\ CallCount("triggered", id)
                   = (IF id \in ActiveNow \ LatchedBefore THEN 1 ELSE 0)
              /\ CallCount("resolved", id)
                   = (IF id \in LatchedBefore \ ActiveNow THEN 1 ELSE 0)
         /\ Len(hook_run.calls)
              = Cardinality(ActiveNow \ LatchedBefore)
                + Cardinality(LatchedBefore \ ActiveNow)
         /\ (hook_run.settings.url_set /\ hook_run.settings.min_severity = "warning")
              => hook_run.posts = hook_run.calls

\* An evaluation in which one id entered the latch, one left it and one stayed.
C21_Witness ==
    /\ hook_run.ran
    /\ hook_run.enabled
    /\ ActiveNow \ LatchedBefore # {}
    /\ LatchedBefore \ ActiveNow # {}
    /\ LatchedBefore \cap ActiveNow # {}
    /\ hook_run.posts = hook_run.calls

(***************************************************************************)
(* Claims about the task records and the task handlers                     *)
(***************************************************************************)

\* currentStep of every record is the number of its completed steps.
StepsCounted ==
    \A t \in DOMAIN task_db :
        task_db[t].currentStep = CompletedCount(task_db[t].steps)

\* No step lowers the currentStep of a record.
StepsNeverDecrease ==
    \A t \in DOMAIN task_db :
        task_db'[t].currentStep >= task_db[t].currentStep

\* C22: in every task record, at creation and after every write a handler
\* makes, currentStep equals the number of steps whose isCompleted is true,
\* and no write lowers currentStep while the handler runs.
C22_CurrentStepCounts == [](StepsCounted) /\ [][StepsNeverDecrease]_vars

\* A handler of app/ai_task_routes.py has completed its steps one after the
\* other and returned, and so has the handler of main.py.
C22_Witness ==
    \E t \in DOMAIN handlers :
        /\ handlers[t].at = "returned"
        /\ task_db[t].status = "completed"
        /\ task_db[t].currentStep = task_db[t].totalSteps
        /\ task_db[t].totalSteps >= 4
        /\ task_db[t].taskType \in {"forecast", "auto_trade"}

\* The handlers that raised inside their try block and have returned.
FailedHandlers ==
    {t \in DOMAIN handlers : handlers[t].caught /\ handlers[t].at = "returned"}

HasErrorFrame(t) == \E i \in 1..Len(topic[t]) : topic[t][i].type = "error"

\* C23: once a handler in which an exception was raised has returned, an
\* error frame has been emitted to its topic, its task record is failed, and
\* the failed counter of the queue has gone up by one for it.
C23_HandlerFailure ==
    /\ \A t \in FailedHandlers :
          HasErrorFrame(t) /\ task_db[t].status = "failed"
    /\ tq.failed = Cardinality(FailedHandlers)

\* C24: a create request whose task_type is none of market_analysis,
\* auto_trade and forecast is answered with a 4xx status, and neither a task
\* record nor a handler exists for it.
C24_UnknownTypeRejected ==
    (api.answered /\ api.task_type = "portfolio_monitor")
      => /\ api.status_code \in 400..499
         /\ api.id \notin DOMAIN task_db
         /\ api.id \notin DOMAIN handlers

\* The frames a market analysis of `pairs` pairs is to put on its topic,
\* with progress in percent.
AnalysisFrames(pairs) ==
    <<Frame("progress", "Fetching Data", 20, None),
      Frame("progress", "Analyzing Markets", 40, None)>>
    \o [i \in 1..pairs |-> Frame("info", None, NoProgress, None)]
    \o <<Frame("progress", "Generating Report", 80, None),
         Frame("success", None, 100, "market_analysis.pdf")>>

StartsWith(whole, part) ==
    /\ Len(part) <= Len(whole)
    /\ \A i \in 1..Len(part) : part[i] = whole[i]

\* The progress values of the frames that carry one, in the order emitted.
ProgressValues(frames) ==
    SelectSeq([i \in 1..Len(frames) |-> frames[i].progress],
              LAMBDA p : p # NoProgress)

NonDecreasing(values) ==
    \A i \in 1..Len(values) : \A j \in i..Len(values) : values[i] <= values[j]

AnalysisHandlers ==
    {t \in DOMAIN handlers : handlers[t].params.task_type = "market_analysis"}

\* C26: a market_analysis handler in which nothing was raised has emitted a
\* leading part of: progress Fetching Data (20%), progress Analyzing Markets
\* (40%), one info frame per requested pair, progress Generating Report
\* (80%), one success frame with progress 100% and the file url; once it has
\* returned it has emitted all of them and nothing else, so no error frame
\* follows the success frame; the progress values on its topic never decrease.
C26_AnalysisFrameOrder ==
    \A t \in AnalysisHandlers :
        /\ NonDecreasing(ProgressValues(topic[t]))
        /\ ~handlers[t].caught
             => /\ StartsWith(AnalysisFrames(handlers[t].params.pairs), topic[t])
                /\ handlers[t].at = "returned"
                     => topic[t] = AnalysisFrames(handlers[t].params.pairs)

C26_Witness ==
    \E t \in AnalysisHandlers :
        /\ ~handlers[t].caught
        /\ handlers[t].at = "returned"
        /\ handlers[t].params.pairs >= 2
        /\ Len(topic[t]) = 4 + handlers[t].params.pairs
        /\ topic[t][Len(topic[t])].type = "success"

(***************************************************************************)
(* Claims about the liveness of a session                                  *)
(***************************************************************************)

\* C27: a session whose last_seen is older than heartbeat_timeout is
\* disconnected by the server within one heartbeat_interval: no session is
\* still registered when last_seen lies more than heartbeat_timeout +
\* heartbeat_interval seconds back (5 s for interval 1 s and timeout 4 s).
C27_StaleSessionGone ==
    session.registered
      => session.now - session.last_seen <= heartbeat_timeout + heartbeat_interval

\* C28: an open session on which nothing was received or written for
\* heartbeat_interval seconds has been written a frame of type ping whose
\* task_id is its topic.
C28_IdleSessionPinged ==
    (/\ session.registered
     /\ session.pc = "receive"
     /\ session.now - session.active_at >= heartbeat_interval)
      => Written("ping", session.task_id) \in session.frames

\* C29: once the server has replied "pong" to a client's "ping", the
\* last_seen of that session is not older than the reply.
C29_PingTouchesLastSeen ==
    (session.registered /\ session.ponged)
      => session.last_seen >= session.pong_at

(***************************************************************************)
(* Claims about the forex data service                                     *)
(***************************************************************************)

\* C30: get_currency_rates issues an upstream request only when the time at
\* which it was called is not before the next-retry time; called before it,
\* it returns the cached table or, without one, the static table.
C30_NoRequestInBackoff ==
    forex.pc = "request" => forex.now >= forex.next_rates_retry

\* A step in which a fetch fails, and one in which a fetch caches a table.
FetchFails == forex.pc = "request" /\ forex'.returned \in {"cache", "static"}

FetchSucceeds == forex.pc = "request" /\ forex'.returned = "fresh"

\* C31: a failed fetch takes the failure streak from k - 1 to k and puts the
\* next retry min(90, 2^min(k, 6)) seconds after the time of the failure;
\* that delay is at most 90 s and not shorter than the delay of the failure
\* before it; a fetch that caches a table sets the streak to 0 and clears
\* the retry time.
C31_BackoffGrowsToCap ==
    [][/\ FetchFails =>
            \E k \in 1..MaxStreak :
                /\ k = forex.rate_failure_streak + 1
                /\ forex'.rate_failure_streak = k
                /\ forex'.next_rates_retry - forex.monotonic
                     = (IF k >= 6 THEN 64 ELSE 2 ^ k)
                /\ forex'.next_rates_retry - forex.monotonic <= 90
                /\ forex'.next_rates_retry - forex.monotonic >= forex.backoff_seconds
       /\ FetchSucceeds =>
            /\ forex'.rate_failure_streak = 0
            /\ forex'.next_rates_retry = 0]_vars

\* C32: whatever a call of get_currency_rates has returned is the freshly
\* fetched non-empty table, the cached table or the static table.
C32_ReturnsATable ==
    forex.returned # "nothing" => forex.returned \in {"fresh", "cache", "static"}

\* The service holds a table whose fetch began less than the minimum fetch
\* interval ago.
CachedWithinInterval ==
    /\ HasRates(forex)
    /\ forex.monotonic - forex.last_rates_fetch < min_rates_fetch_interval_seconds

C31_Witness ==
    /\ forex.rate_failure_streak = 7
    /\ forex.backoff_seconds = 64
    /\ forex.next_rates_retry = forex.monotonic + 64

(***************************************************************************)
(* Claims about the forex stream                                           *)
(***************************************************************************)

\* A task that goes on polling: inside the loop and not marked for
\* cancellation.
Polling(t) ==
    /\ stream_tasks[t].pc \in {"idle_sleep", "fetch", "callback", "sleep"}
    /\ ~stream_tasks[t].must_cancel

\* C34: a stream task starts an upstream fetch or a broadcast only in a step
\* in which a session exists, and a task that finishes a sleep while no
\* session exists sleeps again; a task sleeping because no session existed
\* goes on to fetch once a session exists, unless the sessions leave again
\* or the task is cancelled, without being started anew.
C34_PausedWithoutSessions ==
    /\ [][\A t \in StreamTaskIds :
            /\ (stream_tasks'[t].pc \in {"fetch", "callback"}
                 /\ stream_tasks'[t].pc # stream_tasks[t].pc)
                  => stream.sessions
            /\ (/\ stream_tasks[t].pc \in {"idle_sleep", "sleep"}
                /\ stream_tasks'[t].pc # stream_tasks[t].pc
                /\ ~stream_tasks[t].must_cancel
                /\ ~stream.sessions)
                  => stream_tasks'[t].pc = "idle_sleep"]_vars
    /\ \A t \in StreamTaskIds :
          (stream_tasks[t].pc = "idle_sleep" /\ stream.sessions)
            ~> (\/ stream_tasks[t].pc = "fetch"
                \/ ~stream.sessions
                \/ stream_tasks[t].must_cancel)

C34_Witness ==
    \E t \in StreamTaskIds :
        /\ stream_tasks[t].pc = "fetch"
        /\ stream_tasks[t].idled
        /\ ~stream_tasks[t].must_cancel
        /\ stream.streaming_task = t

\* C39: the task entered under "forex_stream" is never finished or marked
\* for cancellation, the running flag is set whenever that task is inside
\* its loop, and no other task goes on polling: a cancelled task's cleanup
\* neither ends the replacement's loop nor leaves a second poller.
C39_OneStreamAfterRestart ==
    \A t \in StreamTaskIds :
        stream.streaming_task = t
          => /\ stream_tasks[t].pc \in {"new", "idle_sleep", "fetch", "callback", "sleep"}
             /\ ~stream_tasks[t].must_cancel
             /\ Polling(t) => stream.running
             /\ \A u \in StreamTaskIds \ {t} : ~Polling(u)

C39_Witness ==
    /\ stream.streaming_task = 2
    /\ stream_tasks[1].cleaned
    /\ stream_tasks[1].pc = "closing"
    /\ stream_tasks[2].pc = "fetch"
    /\ stream.running


\* The connection manager with its endpoints and producers.
SpecWS == Init /\ [][NextWS]_vars

\* The ops alerts alone.
SpecOps == Init /\ [][NextOps]_vars

\* The create endpoints and the task handlers they start.
SpecTasks == Init /\ [][NextTasks]_vars

\* One session of a duplex endpoint over time.
SpecSession == Init /\ [][NextSession]_vars

\* One caller of get_currency_rates over time.
SpecForex == Init /\ [][NextForex]_vars

\* The forex stream and the calls that start and stop it.
SpecStream == Init /\ [][NextStream]_vars

\* The event loop steps the task at the head of its queue, and timers and
\* I/O complete.
StreamFairness ==
    \A t \in StreamTaskIds :
        /\ WF_vars(StreamWake(t))
        /\ WF_vars(TaskCancelledUnstarted(t))
        /\ WF_vars(TaskBegin(t))
        /\ WF_vars(TaskSleepEnd(t))
        /\ WF_vars(TaskFetched(t))
        /\ WF_vars(TaskBroadcastEnd(t))
        /\ WF_vars(TaskCancelled(t))
        /\ WF_vars(TaskClosed(t))

SpecStreamFair == SpecStream /\ StreamFairness

\* The middleware chain serving one client.
SpecHttp == Init /\ [][NextHttp]_vars

\* The envelope middleware applied to the responses of the routes.
SpecEnvelope == Init /\ [][NextEnvelope]_vars

\* The two limiters under several clients and a running clock.
SpecLimiter == Init /\ [][NextLimiter]_vars

\* The store with its callers.
SpecStore == Init /\ [][NextStore]_vars

\* The task queue with its lifespan, producer and workers.
SpecQueue == Init /\ [][NextQ]_vars

\* The event loop runs every task that is ready, every job terminates and
\* every store call returns (redis_store bounds each call with a timeout).
QueueFairness ==
    /\ \A w \in WorkerIds :
         /\ WF_vars(WorkerStart(w))
         /\ WF_vars(MemoryGet(w))
         /\ WF_vars(JobEnd(w))
         /\ WF_vars(RedisPop(w))
         /\ WF_vars(RedisSleepEnd(w))
    /\ WF_vars(StartProbeEnd)
    /\ WF_vars(StartLenEnd)
    /\ WF_vars(StopPutResume)
    /\ WF_vars(StopGathered)
    /\ WF_vars(StopLenEnd)
    /\ WF_vars(EnqueuePushEnd)

SpecQueueFair == SpecQueue /\ QueueFairness

\* The task queue where worker tasks may also be cancelled.
NextQCancel ==
    \/ NextQ
    \/ \E w \in WorkerIds : WorkerCancelled(w)

SpecQueueCancel == Init /\ [][NextQCancel]_vars

\* The task types of app/ai_task_routes.py.
RoutedTypes == {"market_analysis", "auto_trade", "forecast"}

\* C40: whenever a handler sets a task's status to completed, every step of
\* that task is marked completed, i.e. currentStep equals totalSteps, for
\* all three task types.
C40_CompletedMeansAllSteps ==
    \A t \in DOMAIN task_db :
        (task_db[t].taskType \in RoutedTypes /\ task_db[t].status = "completed")
            => task_db[t].currentStep = task_db[t].totalSteps

SpecRisk == Init /\ [][NextRisk]_vars

(***************************************************************************)
(* Claims about the risk engine                                            *)
(***************************************************************************)

\* The levels of a position lie on the sides of its entry price its action
\* calls for, and it has a size.
WellFormed(position) ==
    /\ position.quantity > 0
    /\ IF position.action = "BUY"
       THEN position.stop_loss < position.entry_price
            /\ position.entry_price < position.take_profit
       ELSE position.take_profit < position.entry_price
            /\ position.entry_price < position.stop_loss

\* The current price has reached one of the two levels of the position.
LevelReached(position, current_price) ==
    IF position.action = "BUY"
    THEN current_price >= position.take_profit \/ current_price <= position.stop_loss
    ELSE current_price <= position.take_profit \/ current_price >= position.stop_loss

\* C37: evaluate_position closes a position only when the current price has
\* reached its take-profit or stop-loss level (BUY: price at or above
\* take-profit, or at or below stop-loss; SELL: price at or below take-profit,
\* or at or above stop-loss); a position whose price lies strictly between
\* its two levels stays open.
C37_ClosesOnlyAtLevel ==
    (risk.called /\ WellFormed(risk.position))
        => (risk.closed_trade.status = "CLOSED"
                <=> LevelReached(risk.position, risk.current_price))

SpecForecast == Init /\ [][NextForecast]_vars

(***************************************************************************)
(* Claims about the pair forecast                                          *)
(***************************************************************************)

\* C35: get_pair_forecast fails with UnavailablePair when the pair's current
\* price can neither be read from the cache nor derived from the USD-base
\* table, and for every pair it can resolve the returned confidence lies in
\* [45, 92] for every combination of history depth, trend, momentum and
\* volatility.
C35_ForecastConfidence ==
    /\ (forecast.called /\ ~forecast.cached /\ ~forecast.derived)
           => forecast.pc = "raised"
    /\ forecast.pc = "raised" => (~forecast.cached /\ ~forecast.derived)
    /\ forecast.pc = "returned"
           => (forecast.confidence_percent >= 45 /\ forecast.confidence_percent <= 92)

\* C35 witness: a cross pair written without its slash, absent from the
\* cache and derived from the table, with more than forty prices of history,
\* trend and momentum aligned, gets the confidence 90.
C35_Witness ==
    /\ forecast.pc = "returned"
    /\ forecast.derived
    /\ forecast.normalized_pair.base = "EUR" /\ forecast.normalized_pair.quote = "JPY"
    /\ forecast.history_len > 40
    /\ forecast.trend = "bullish" /\ forecast.momentum_score = 1
    /\ forecast.confidence_percent = 90

SpecBg == Init /\ [][NextBg]_vars

(***************************************************************************)
(* Claims about the background store operations of a session               *)
(***************************************************************************)

\* Every store operation scheduled for the session has finished.
BgFinished ==
    /\ bg.set = "done"
    /\ bg.removal = "done"
    /\ \A p \in PatchIds : bg.patch[p] \in {"none", "done"}

\* C36: after a session is disconnected and every background store operation
\* scheduled for it (registry set, last_seen patch, removal) has finished,
\* the shared registry hash holds no entry for its connection_id, under
\* every interleaving of those operations.  Stated for the runs in which no
\* store command raised.
C36_NoEntryAfterRemoval ==
    (bg.pc = "closed" /\ BgFinished /\ ~bg.failed) => ~bg.entry

SpecEmitters == Init /\ [][NextEmitters]_vars

(***************************************************************************)
(* Claims about concurrent ops evaluations                                 *)
(***************************************************************************)

\* C38: when several ops evaluations run concurrently (the status, alerts and
\* metrics endpoints each call the hook emitter, which suspends during
\* webhook delivery), the webhook calls made for each alert id still
\* alternate triggered, resolved, triggered, ..., with no two consecutive
\* triggered calls and no two consecutive resolved calls for the same id.
C38_CallsAlternate == \A id \in EmitterAlertIds : ~emitters.repeated[id]

====
